---- MODULE Spec2Model ----
(***************************************************************************)
(* The job queue and the polling worker of transaction-tracker.            *)
(*                                                                         *)
(* The jobs table (scripts/setup-db.ts) is the only shared state.  Each    *)
(* worker invocation (handleWorker) is a process that issues its SQL       *)
(* statements one after the other; the statements of different             *)
(* invocations interleave freely.  The database is PostgreSQL at its       *)
(* default isolation level, READ COMMITTED:                                *)
(*   - a statement whose WHERE clause tests the row itself                *)
(*     (UPDATE .. WHERE status = 'processing' AND started_at < ..,         *)
(*      UPDATE .. WHERE id = $1) is one atomic step: a row changed by a    *)
(*     concurrent statement is re-tested before it is written;             *)
(*   - a statement of the shape UPDATE .. WHERE id IN (SELECT id .. LIMIT) *)
(*     evaluates its sub-select on the statement's snapshot and then       *)
(*     writes the latest version of every selected row; the sub-select is  *)
(*     not evaluated again when a selected row was changed in between, and *)
(*     the outer WHERE clause (id IN ..) still holds of the changed row.   *)
(*     Such a statement is therefore two steps: Select and Update.         *)
(*                                                                         *)
(* Of a row the model keeps status, retry_count, started_at, completed_at, *)
(* error and result; user_id, type, payload, created_at (the order of the  *)
(* ids) and updated_at are read by no statement modelled here.  processJob *)
(* is its three updates of the row: the work between the first and the     *)
(* last either goes through or throws.  Statements themselves do not fail. *)
(* Nothing bounds how long a processJob runs: the clock may advance at any *)
(* point.                                                                  *)
(*                                                                         *)
(* The module holds further specifications over the same variables.        *)
(* FingerprintSpec and DateSpec apply generateTransactionId and            *)
(* parseTransactionDate (lib/db.ts) to argument tuples drawn from bounded  *)
(* sets; strings are sequences of character codes and the 32-bit hash is   *)
(* kept as two 16-bit halves.  StoreSpec is the candidate loop of          *)
(* processJob over the transactions table, the per-owner overrides and the *)
(* global merchant cache, run by two workers next to the category PUT of   *)
(* the transactions route; each await of the loop is one step.             *)
(* RetrySpec is one call of withRetry, whose fn resolves or rejects at each *)
(* invocation.  JobSpec is one processJob around its candidate loop: the   *)
(* payload, the single call of the vision model and the parsing of its     *)
(* response, the final update and the deletes of the blobs.  StatusSpec is *)
(* one request to the job status routes, answered over two jobs tables     *)
(* that agree on the requester's jobs.  FlightSpec is the single-flight    *)
(* worker of app/api/worker/route.ts.  BlobSpec adds the objects of the    *)
(* bucket to the queue of Spec.  LoopSpec is the worker of Spec with no    *)
(* bound on the invocations: time is kept relative to the rows (AgeTick),  *)
(* and LoopLiveSpec adds weak fairness of the invocations and their steps. *)
(* PathSpec ingests one transaction through two of the four ingestion      *)
(* paths, and OverrideSpec is any sequence of calls that set and delete    *)
(* per-owner overrides.                                                    *)
(***************************************************************************)
EXTENDS Integers, Sequences, FiniteSets, TLC

\* ---------------------------------------------------------------- bounds
NumWorkers == 2     \* concurrent handleWorker invocations
MaxTime == 7        \* the clock stops here (minutes)
MaxRequests == 6    \* requests served: uploads and worker invocations
TickMinutes == 6    \* minutes by which one Tick advances the clock
MaxBlobJobs == 2    \* jobs uploaded with a blob
MaxLoopJobs == 1    \* jobs uploaded when invocations are unbounded

\* ------------------------------------------------------ program constants
MAX_CONCURRENT_JOBS == 2
JOB_TIMEOUT_MINUTES == 5
MAX_RETRIES == 2          \* COALESCE(retry_count, 0) < 2
REQUEUE_LIMIT == 2        \* LIMIT 2 of the auto-retry statement

Workers == 1..NumWorkers

\* A nullable column holds << >> (NULL) or <<v>>.
NULL == << >>
Some(v) == <<v>>
Val(c) == c[1]

VARIABLES
    jobs,       \* the jobs table: a sequence of rows, id = index = creation order
    now,        \* NOW(), in minutes
    pc,         \* pc[w]: where invocation w of handleWorker stands
    sel,        \* sel[w]: ids the sub-select of w's running statement returned
    slots,      \* slots[w]: availableSlots
    proc,       \* proc[w]: result.rows, each with the stage of its processJob
    requests,   \* requests served so far: uploads and worker invocations
    transactions,              \* the transactions table: id -> row
    user_merchant_categories,  \* the per-owner overrides: a set of rows
    merchant_categories,       \* the global cache: LOWER(merchant_name) -> row
    placesApiKey,              \* whether GOOGLE_PLACES_API_KEY is set
    run,        \* run[w]: the processJob that worker w is in, with its locals
    args,       \* the argument tuples of the calls of a pure function
    ret,        \* << >> before the calls, then their results
    retry,      \* the withRetry call under way, with its locals
    job,        \* the processJob under way around its candidate loop
    blobs       \* the keys of the objects in the R2 bucket

queueVars == <<jobs, now, pc, sel, slots, proc>>
storeVars == <<transactions, user_merchant_categories, merchant_categories,
               placesApiKey, run>>
pureVars == <<args, ret>>
callVars == <<retry, job>>

vars == <<jobs, now, pc, sel, slots, proc, requests, transactions,
          user_merchant_categories, merchant_categories, placesApiKey, run,
          args, ret, retry, job, blobs>>

JobIds == DOMAIN jobs

\* A row as INSERT INTO jobs (user_id, status, payload) leaves it.
NewRow ==
    [status |-> "pending", retry_count |-> 0, started_at |-> NULL,
     completed_at |-> NULL, error |-> NULL, result |-> NULL]

Min(a, b) == IF a < b THEN a ELSE b

\* Mutant: ORDER BY created_at DESC.
RECURSIVE NewestFirst(_, _)
NewestFirst(S, n) ==
    IF n <= 0 \/ S = {} THEN {}
    ELSE LET m == CHOOSE x \in S : \A y \in S : x >= y
         IN  {m} \cup NewestFirst(S \ {m}, n - 1)

\* The first n ids of S in ascending created_at order (ids are creation order).
RECURSIVE OldestFirst(_, _)
OldestFirst(S, n) ==
    IF n <= 0 \/ S = {} THEN {}
    ELSE LET m == CHOOSE x \in S : \A y \in S : x <= y
         IN  {m} \cup OldestFirst(S \ {m}, n - 1)

\* The jobs table is empty and no invocation of handleWorker is under way.
QueueInit ==
    /\ jobs = << >>
    /\ now = 1
    /\ pc = [w \in Workers |-> "idle"]
    /\ sel = [w \in Workers |-> {}]
    /\ slots = [w \in Workers |-> 0]
    /\ proc = [w \in Workers |-> << >>]

\* The locals of processJob while no job is being processed.
IdleRun ==
    [at |-> "idle", user_id |-> << >>, rawTransactions |-> << >>, i |-> 0,
     category |-> NULL, answer |-> NULL, added |-> 0, duplicates |-> 0,
     inserted |-> 0, status |-> "none"]

\* The tables as the setup scripts create them, and the bucket: empty.
StoreInit ==
    /\ blobs = {}
    /\ transactions = << >>
    /\ user_merchant_categories = {}
    /\ merchant_categories = << >>
    /\ run = [w \in Workers |-> IdleRun]

Init ==
    /\ QueueInit
    /\ requests = 0
    /\ StoreInit
    /\ placesApiKey = TRUE
    /\ args = << >>
    /\ ret = << >>
    /\ retry = << >>
    /\ job = << >>

\* ------------------------------------------------------------ environment
\* upload-frames: INSERT INTO jobs (user_id, status, payload) VALUES ($1, 'pending', $2)
Enqueue ==
    /\ requests < MaxRequests
    /\ requests' = requests + 1
    /\ jobs' = Append(jobs, NewRow)
    /\ UNCHANGED <<now, pc, sel, slots, proc>>
    /\ UNCHANGED <<storeVars, pureVars, callVars, blobs>>

\* Time passes.
Tick ==
    /\ now + TickMinutes <= MaxTime
    /\ now' = now + TickMinutes
    /\ UNCHANGED <<jobs, pc, sel, slots, proc, requests>>
    /\ UNCHANGED <<storeVars, pureVars, callVars, blobs>>

\* ------------------------------------------------- handleWorker, statement 1
\* SELECT id FROM jobs WHERE status = 'failed' AND COALESCE(retry_count, 0) < 2
\* ORDER BY created_at ASC LIMIT 2
RetryCandidates ==
    OldestFirst({j \in JobIds : jobs[j].status = "failed"
                                /\ jobs[j].retry_count < MAX_RETRIES},
                REQUEUE_LIMIT)

\* Mutant: the auto-retry statement also resets completed_at.
RequeuedRowResetsCompletedAt(r) ==
    [r EXCEPT !.status = "pending", !.retry_count = @ + 1, !.completed_at = NULL]

\* SET status = 'pending', retry_count = COALESCE(retry_count, 0) + 1
RequeuedRow(r) ==
    [r EXCEPT !.status = "pending", !.retry_count = @ + 1]

\* The auto-retry statement takes its snapshot: the sub-select is evaluated.
RequeueSelect(w) ==
    /\ pc[w] = "idle"
    /\ requests < MaxRequests
    /\ requests' = requests + 1
    /\ sel' = [sel EXCEPT ![w] = RetryCandidates]
    /\ pc' = [pc EXCEPT ![w] = "requeue"]
    /\ UNCHANGED <<jobs, now, slots, proc>>
    /\ UNCHANGED <<storeVars, pureVars, callVars, blobs>>

\* The auto-retry statement writes the latest version of every selected row.
RequeueUpdate(w) ==
    /\ pc[w] = "requeue"
    /\ jobs' = [j \in JobIds |->
                   IF j \in sel[w] THEN RequeuedRow(jobs[j]) ELSE jobs[j]]
    /\ sel' = [sel EXCEPT ![w] = {}]
    /\ pc' = [pc EXCEPT ![w] = "recover"]
    /\ UNCHANGED <<now, slots, proc, requests>>
    /\ UNCHANGED <<storeVars, pureVars, callVars, blobs>>

\* ------------------------------------------------- handleWorker, statement 2
\* Mutant: the stuck-job statement without its started_at condition.
StuckJobsNoThreshold == {j \in JobIds : jobs[j].status = "processing"}

\* WHERE status = 'processing' AND started_at < NOW() - INTERVAL '5 minutes'
StuckJobs ==
    {j \in JobIds : /\ jobs[j].status = "processing"
                    /\ jobs[j].started_at # NULL
                    /\ Val(jobs[j].started_at) < now - JOB_TIMEOUT_MINUTES}

\* UPDATE jobs SET status = 'pending' WHERE .. RETURNING id
\* (the returned ids are only counted for the log line)
RecoverStuck(w) ==
    /\ pc[w] = "recover"
    /\ jobs' = [j \in JobIds |->
                   IF j \in StuckJobs THEN [jobs[j] EXCEPT !.status = "pending"]
                   ELSE jobs[j]]
    /\ pc' = [pc EXCEPT ![w] = "count"]
    /\ UNCHANGED <<now, sel, slots, proc, requests>>
    /\ UNCHANGED <<storeVars, pureVars, callVars, blobs>>

\* ------------------------------------------------- handleWorker, statement 3
\* SELECT COUNT(*) as count FROM jobs WHERE status = 'processing'
ProcessingCount == Cardinality({j \in JobIds : jobs[j].status = "processing"})

\* availableSlots = MAX_CONCURRENT_JOBS - processingCount; return if <= 0
CountProcessing(w) ==
    /\ pc[w] = "count"
    /\ LET availableSlots == MAX_CONCURRENT_JOBS - ProcessingCount
       IN  IF availableSlots <= 0
           THEN /\ pc' = [pc EXCEPT ![w] = "idle"]
                /\ slots' = slots
           ELSE /\ pc' = [pc EXCEPT ![w] = "claimSelect"]
                /\ slots' = [slots EXCEPT ![w] = availableSlots]
    /\ UNCHANGED <<jobs, now, sel, proc, requests>>
    /\ UNCHANGED <<storeVars, pureVars, callVars, blobs>>

\* ------------------------------------------------- handleWorker, statement 4
\* SELECT id FROM jobs WHERE status = 'pending' ORDER BY created_at ASC LIMIT $1
PendingJobs == {j \in JobIds : jobs[j].status = "pending"}

ClaimCandidates(n) == OldestFirst(PendingJobs, n)

\* SET status = 'processing', started_at = NOW()
ClaimedRow(r) ==
    [r EXCEPT !.status = "processing", !.started_at = Some(now)]

\* The claim statement takes its snapshot: the sub-select is evaluated.
ClaimSelect(w) ==
    /\ pc[w] = "claimSelect"
    /\ sel' = [sel EXCEPT ![w] = ClaimCandidates(slots[w])]
    /\ slots' = [slots EXCEPT ![w] = 0]
    /\ pc' = [pc EXCEPT ![w] = "claim"]
    /\ UNCHANGED <<jobs, now, proc, requests>>
    /\ UNCHANGED <<storeVars, pureVars, callVars, blobs>>

\* The claim statement writes the latest version of every selected row and
\* returns them (RETURNING id, user_id, payload); no row: "No pending jobs".
ClaimUpdate(w) ==
    /\ pc[w] = "claim"
    /\ jobs' = [j \in JobIds |->
                   IF j \in sel[w] THEN ClaimedRow(jobs[j]) ELSE jobs[j]]
    /\ proc' = [proc EXCEPT ![w] = [j \in sel[w] |-> "start"]]
    /\ sel' = [sel EXCEPT ![w] = {}]
    /\ pc' = [pc EXCEPT ![w] = IF sel[w] = {} THEN "idle" ELSE "process"]
    /\ UNCHANGED <<now, slots, requests>>
    /\ UNCHANGED <<storeVars, pureVars, callVars, blobs>>

\* ------------------------------------------------------------- processJob
\* UPDATE jobs SET status = 'processing', started_at = NOW() WHERE id = $1
StartedRow(r) ==
    [r EXCEPT !.status = "processing", !.started_at = Some(now)]

\* UPDATE jobs SET status = 'completed', result = $1, completed_at = NOW() WHERE id = $2
CompletedRow(r) ==
    [r EXCEPT !.status = "completed", !.result = Some("summary"),
              !.completed_at = Some(now)]

\* UPDATE jobs SET status = 'failed', error = $1, completed_at = NOW() WHERE id = $2
FailedRow(r) ==
    [r EXCEPT !.status = "failed", !.error = Some("message"),
              !.completed_at = Some(now)]

Running(w) == {j \in DOMAIN proc[w] : proc[w][j] # "done"}

ProcStart(w, j) ==
    /\ pc[w] = "process"
    /\ j \in DOMAIN proc[w]
    /\ proc[w][j] = "start"
    /\ jobs' = [jobs EXCEPT ![j] = StartedRow(@)]
    /\ proc' = [proc EXCEPT ![w][j] = "extract"]
    /\ UNCHANGED <<now, pc, sel, slots, requests>>
    /\ UNCHANGED <<storeVars, pureVars, callVars, blobs>>

\* Extraction and the inserts went through.
ProcComplete(w, j) ==
    /\ pc[w] = "process"
    /\ j \in DOMAIN proc[w]
    /\ proc[w][j] = "extract"
    /\ jobs' = [jobs EXCEPT ![j] = CompletedRow(@)]
    /\ proc' = [proc EXCEPT ![w][j] = "done"]
    /\ UNCHANGED <<now, pc, sel, slots, requests>>
    /\ UNCHANGED <<storeVars, pureVars, callVars, blobs>>

\* Mutant: processJob without its try/catch: the error rejects Promise.all
\* and the invocation is over at once.
ProcFailAbort(w, j) ==
    /\ pc[w] = "process"
    /\ j \in DOMAIN proc[w]
    /\ proc[w][j] = "extract"
    /\ jobs' = [jobs EXCEPT ![j] = FailedRow(@)]
    /\ proc' = [proc EXCEPT ![w] = << >>]
    /\ pc' = [pc EXCEPT ![w] = "idle"]
    /\ UNCHANGED <<now, sel, slots, requests>>
    /\ UNCHANGED <<storeVars, pureVars, callVars, blobs>>

\* Download, extraction or an insert threw: the catch block.
ProcFail(w, j) ==
    /\ pc[w] = "process"
    /\ j \in DOMAIN proc[w]
    /\ proc[w][j] = "extract"
    /\ jobs' = [jobs EXCEPT ![j] = FailedRow(@)]
    /\ proc' = [proc EXCEPT ![w][j] = "done"]
    /\ UNCHANGED <<now, pc, sel, slots, requests>>
    /\ UNCHANGED <<storeVars, pureVars, callVars, blobs>>

\* await Promise.all(..) is through: the invocation returns its summary.
Return(w) ==
    /\ pc[w] = "process"
    /\ Running(w) = {}
    /\ pc' = [pc EXCEPT ![w] = "idle"]
    /\ proc' = [proc EXCEPT ![w] = << >>]
    /\ UNCHANGED <<jobs, now, sel, slots, requests>>
    /\ UNCHANGED <<storeVars, pureVars, callVars, blobs>>

Next ==
    \/ Enqueue
    \/ Tick
    \/ \E w \in Workers : RequeueSelect(w)
    \/ \E w \in Workers : RequeueUpdate(w)
    \/ \E w \in Workers : RecoverStuck(w)
    \/ \E w \in Workers : CountProcessing(w)
    \/ \E w \in Workers : ClaimSelect(w)
    \/ \E w \in Workers : ClaimUpdate(w)
    \/ \E w \in Workers : \E j \in JobIds : ProcStart(w, j)
    \/ \E w \in Workers : \E j \in JobIds : ProcComplete(w, j)
    \/ \E w \in Workers : \E j \in JobIds : ProcFail(w, j)
    \/ \E w \in Workers : Return(w)

Spec == Init /\ [][Next]_vars

\* ================================================================ lib/db.ts
\* A string is the sequence of its character codes; the model's strings are
\* ASCII, so a character code is also the byte Buffer.from(data) holds.
WhiteSpace == {9, 10, 11, 12, 13, 32}
Digit == 48..57
Letter == (65..90) \cup (97..122)

\* Mutant: toLowerCase keeps the case.
KeepCase(s) == s

\* String.prototype.toLowerCase
toLowerCase(s) ==
    IF s = << >> THEN << >>
    ELSE [k \in 1..Len(s) |-> IF s[k] \in 65..90 THEN s[k] + 32 ELSE s[k]]

RECURSIVE trimStart(_)
trimStart(s) ==
    IF s # << >> /\ Head(s) \in WhiteSpace THEN trimStart(Tail(s)) ELSE s

RECURSIVE trimEnd(_)
trimEnd(s) ==
    IF s # << >> /\ s[Len(s)] \in WhiteSpace
    THEN trimEnd(SubSeq(s, 1, Len(s) - 1))
    ELSE s

\* String.prototype.trim
trim(s) == trimEnd(trimStart(s))

\* String.prototype.padStart(n, c)
RECURSIVE padStart(_, _, _)
padStart(s, n, c) == IF Len(s) >= n THEN s ELSE padStart(<<c>> \o s, n, c)

\* String.prototype.slice(0, n)
slice(s, n) == SubSeq(s, 1, Min(n, Len(s)))

\* `${n}` of a whole number n >= 0: its decimal digits.
RECURSIVE NumberToString(_)
NumberToString(n) ==
    IF n < 10 THEN <<48 + n>>
    ELSE NumberToString(n \div 10) \o <<48 + (n % 10)>>

\* One round of the loop of generateTransactionId on the 32-bit hash h, kept
\* as its two 16-bit halves <<high, low>>:
\*   hash = ((hash << 5) - hash) + char;  hash = hash & hash;
\* that is hash * 31 + char reduced to 32 bits.
HashStep(h, char) ==
    LET low == h[2] * 31 + char
        high == h[1] * 31 + (low \div 65536)
    IN  <<high % 65536, low % 65536>>

\* for (let i = 0; i < data.length; i++) { .. }
\* (the test of hash makes TLC compute each round before it goes on to the
\* next, instead of nesting the rounds as deep as data is long)
RECURSIVE HashLoop(_, _)
HashLoop(h, data) ==
    IF data = << >> THEN h
    ELSE LET hash == HashStep(h, Head(data))
         IN  IF hash[1] < 65536 /\ hash[2] < 65536
             THEN HashLoop(hash, Tail(data))
             ELSE hash

\* Math.abs of the signed 32-bit integer with halves h, again as two halves
\* (Math.abs(-2^31) is 2^31: a JavaScript number is not confined to 32 bits).
MathAbs(h) ==
    IF h[1] < 32768 THEN h
    ELSE IF h[2] = 0 THEN <<65536 - h[1], 0>>
    ELSE <<65535 - h[1], 65536 - h[2]>>

\* Number.prototype.toString(16) of a magnitude below 2^32 given as halves:
\* its hexadecimal digits without leading zeros.
toString16(m) ==
    LET HexChar(d) == IF d < 10 THEN 48 + d ELSE 87 + d
        Hex4(x) == <<HexChar(x \div 4096), HexChar((x \div 256) % 16),
                     HexChar((x \div 16) % 16), HexChar(x % 16)>>
        digits == Hex4(m[1]) \o Hex4(m[2])
        first == IF \A k \in 1..8 : digits[k] = 48 THEN 8
                 ELSE CHOOSE k \in 1..8 :
                          digits[k] # 48 /\ \A x \in 1..(k - 1) : digits[x] = 48
    IN  SubSeq(digits, first, 8)

\* The base64 alphabet: A-Z a-z 0-9 + /
Base64Char(x) ==
    IF x < 26 THEN 65 + x
    ELSE IF x < 52 THEN 71 + x
    ELSE IF x < 62 THEN x - 4
    ELSE IF x = 62 THEN 43
    ELSE 47

\* Buffer.toString('base64'): three bytes give four characters; = pads.
RECURSIVE base64(_)
base64(b) ==
    IF b = << >> THEN << >>
    ELSE IF Len(b) = 1
    THEN <<Base64Char(b[1] \div 4), Base64Char((b[1] % 4) * 16), 61, 61>>
    ELSE IF Len(b) = 2
    THEN <<Base64Char(b[1] \div 4),
           Base64Char((b[1] % 4) * 16 + (b[2] \div 16)),
           Base64Char((b[2] % 16) * 4), 61>>
    ELSE <<Base64Char(b[1] \div 4),
           Base64Char((b[1] % 4) * 16 + (b[2] \div 16)),
           Base64Char((b[2] % 16) * 4 + (b[3] \div 64)),
           Base64Char(b[3] % 64)>> \o base64(SubSeq(b, 4, Len(b)))

\* `${hashHex}-${Buffer.from(data).toString('base64').slice(0, 20)}`
generateTransactionId(userId, merchantName, date, amount, rewards) ==
    LET data == userId \o <<58>> \o trim(toLowerCase(merchantName)) \o <<58>>
                \o date \o <<58>> \o NumberToString(amount) \o <<58>>
                \o NumberToString(rewards)
        hashHex == padStart(toString16(MathAbs(HashLoop(<<0, 0>>, data))), 8, 48)
    IN  hashHex \o <<45>> \o slice(base64(data), 20)

\* ------------------------------------------------------ parseTransactionDate
\* The parts of s between the occurrences of the character sep.
RECURSIVE Split(_, _)
Split(s, sep) ==
    IF \A k \in 1..Len(s) : s[k] # sep THEN <<s>>
    ELSE LET k == CHOOSE x \in 1..Len(s) :
                      s[x] = sep /\ \A y \in 1..(x - 1) : s[y] # sep
         IN  <<SubSeq(s, 1, k - 1)>> \o Split(SubSeq(s, k + 1, Len(s)), sep)

\* \d{lo,hi}
IsDigits(s, lo, hi) ==
    /\ Len(s) >= lo
    /\ Len(s) <= hi
    /\ \A k \in 1..Len(s) : s[k] \in Digit

\* The length of the longest prefix of s made of characters of the set C.
RECURSIVE Span(_, _)
Span(s, C) ==
    IF s # << >> /\ Head(s) \in C THEN 1 + Span(Tail(s), C) ELSE 0

\* The months table of the fourth format.
months ==
    << << <<106, 97, 110>>, <<48, 49>> >>,
       << <<106, 97, 110, 117, 97, 114, 121>>, <<48, 49>> >>,
       << <<102, 101, 98>>, <<48, 50>> >>,
       << <<102, 101, 98, 114, 117, 97, 114, 121>>, <<48, 50>> >>,
       << <<109, 97, 114>>, <<48, 51>> >>,
       << <<109, 97, 114, 99, 104>>, <<48, 51>> >>,
       << <<97, 112, 114>>, <<48, 52>> >>,
       << <<97, 112, 114, 105, 108>>, <<48, 52>> >>,
       << <<109, 97, 121>>, <<48, 53>> >>,
       << <<106, 117, 110>>, <<48, 54>> >>,
       << <<106, 117, 110, 101>>, <<48, 54>> >>,
       << <<106, 117, 108>>, <<48, 55>> >>,
       << <<106, 117, 108, 121>>, <<48, 55>> >>,
       << <<97, 117, 103>>, <<48, 56>> >>,
       << <<97, 117, 103, 117, 115, 116>>, <<48, 56>> >>,
       << <<115, 101, 112>>, <<48, 57>> >>,
       << <<115, 101, 112, 116>>, <<48, 57>> >>,
       << <<115, 101, 112, 116, 101, 109, 98, 101, 114>>, <<48, 57>> >>,
       << <<111, 99, 116>>, <<49, 48>> >>,
       << <<111, 99, 116, 111, 98, 101, 114>>, <<49, 48>> >>,
       << <<110, 111, 118>>, <<49, 49>> >>,
       << <<110, 111, 118, 101, 109, 98, 101, 114>>, <<49, 49>> >>,
       << <<100, 101, 99>>, <<49, 50>> >>,
       << <<100, 101, 99, 101, 109, 98, 101, 114>>, <<49, 50>> >> >>

\* months[name]: <<value>>, or << >> when the table has no such key.
MonthOf(name) ==
    IF \E k \in 1..Len(months) : months[k][1] = name
    THEN Some((months[CHOOSE k \in 1..Len(months) : months[k][1] = name])[2])
    ELSE NULL

\* /^(\d{1,2})\/(\d{1,2})\/(\d{4})$/ and /^(\d{1,2})-(\d{1,2})-(\d{4})$/:
\* << >> for no match, else <<m1, m2, m3>>.
MatchMDY(s, sep) ==
    LET p == Split(s, sep)
    IN  IF Len(p) = 3 /\ IsDigits(p[1], 1, 2) /\ IsDigits(p[2], 1, 2)
           /\ IsDigits(p[3], 4, 4)
        THEN p ELSE << >>

\* /^(\d{4})-(\d{1,2})-(\d{1,2})$/
MatchYMD(s) ==
    LET p == Split(s, 45)
    IN  IF Len(p) = 3 /\ IsDigits(p[1], 4, 4) /\ IsDigits(p[2], 1, 2)
           /\ IsDigits(p[3], 1, 2)
        THEN p ELSE << >>

\* /^([A-Za-z]+)\s+(\d{1,2}),?\s+(\d{4})$/
MatchMonthName(s) ==
    LET n1 == Span(s, Letter)
        s1 == SubSeq(s, n1 + 1, Len(s))
        w1 == Span(s1, WhiteSpace)
        s2 == SubSeq(s1, w1 + 1, Len(s1))
        n2 == Span(s2, Digit)
        s3 == SubSeq(s2, n2 + 1, Len(s2))
        s4 == IF s3 # << >> /\ Head(s3) = 44 THEN Tail(s3) ELSE s3
        w2 == Span(s4, WhiteSpace)
        s5 == SubSeq(s4, w2 + 1, Len(s4))
    IN  IF n1 >= 1 /\ w1 >= 1 /\ n2 >= 1 /\ n2 <= 2 /\ w2 >= 1
           /\ IsDigits(s5, 4, 4)
        THEN <<SubSeq(s, 1, n1), SubSeq(s2, 1, n2), s5>>
        ELSE << >>

\* Mutant: the first two formats read day before month.
FormatMDYDayFirst(m) ==
    m[3] \o <<45>> \o padStart(m[2], 2, 48) \o <<45>> \o padStart(m[1], 2, 48)

\* `${m[3]}-${m[1].padStart(2, '0')}-${m[2].padStart(2, '0')}`
FormatMDY(m) ==
    m[3] \o <<45>> \o padStart(m[1], 2, 48) \o <<45>> \o padStart(m[2], 2, 48)

\* `${m[1]}-${m[2].padStart(2, '0')}-${m[3].padStart(2, '0')}`
FormatYMD(m) ==
    m[1] \o <<45>> \o padStart(m[2], 2, 48) \o <<45>> \o padStart(m[3], 2, 48)

\* The fn of the fourth format: null when the table has no such month.
FormatMonthName(m) ==
    LET month == MonthOf(toLowerCase(m[1]))
    IN  IF month = NULL THEN NULL
        ELSE Some(m[3] \o <<45>> \o Val(month) \o <<45>> \o padStart(m[2], 2, 48))

\* The formats are tried in order; the first that matches and yields a result
\* decides. NULL is the null the function returns.
parseTransactionDate(dateStr) ==
    IF MatchMDY(dateStr, 47) # << >> THEN Some(FormatMDY(MatchMDY(dateStr, 47)))
    ELSE IF MatchMDY(dateStr, 45) # << >>
    THEN Some(FormatMDY(MatchMDY(dateStr, 45)))
    ELSE IF MatchYMD(dateStr) # << >> THEN Some(FormatYMD(MatchYMD(dateStr)))
    ELSE IF MatchMonthName(dateStr) # << >>
    THEN FormatMonthName(MatchMonthName(dateStr))
    ELSE NULL

\* ======================================== calls of generateTransactionId
\* Clerk user ids. The first two agree on their first fifteen characters.
OwnerA == <<117, 115, 101, 114, 95, 50, 97, 66, 51, 99, 68, 52, 101, 70, 53, 65, 97>>
OwnerB == <<117, 115, 101, 114, 95, 50, 97, 66, 51, 99, 68, 52, 101, 70, 53, 66, 66>>
OwnerC == <<117, 115, 101, 114, 95, 57, 122, 89, 56, 120, 87, 55, 118, 85, 54, 84, 116>>
Owners == {OwnerA, OwnerB, OwnerC}

\* Merchant names as the extraction returns them: "BP", "bp", " Bp ", "Zed".
MerchantBP == <<66, 80>>
MerchantBp == <<98, 112>>
MerchantBpSpaced == <<32, 66, 112, 32>>
MerchantZed == <<90, 101, 100>>

\* The argument tuples of the model: the three owners; the four names; the
\* normalized dates "2024-01-05" and "2024-01-06"; two amounts, two rewards.
FpInputs ==
    [userId : Owners,
     merchantName : {MerchantBP, MerchantBp, MerchantBpSpaced, MerchantZed},
     date : {<<50, 48, 50, 52, 45, 48, 49, 45, 48, 53>>,
             <<50, 48, 50, 52, 45, 48, 49, 45, 48, 54>>},
     amount : {12, 120}, rewards : {0, 3}]

\* Two calls are about to be made, with any two argument tuples.
FpInit ==
    /\ QueueInit
    /\ requests = 0
    /\ StoreInit
    /\ placesApiKey = TRUE
    /\ args \in FpInputs \X FpInputs
    /\ ret = << >>
    /\ retry = << >>
    /\ job = << >>

\* The call with the argument tuple a.
FingerprintOf(a) ==
    generateTransactionId(a.userId, a.merchantName, a.date, a.amount, a.rewards)

\* Both calls return.
FpCall ==
    /\ ret = << >>
    /\ args # << >>
    /\ ret' = <<FingerprintOf(args[1]), FingerprintOf(args[2])>>
    /\ UNCHANGED <<queueVars, requests, storeVars, args, callVars, blobs>>

FingerprintSpec == FpInit /\ [][FpCall]_vars

\* ========================================= calls of parseTransactionDate
\* The days of the model: every month, a one-digit and a two-digit day.
Days == {<<2024, m, d>> : m \in 1..12, d \in {5, 15}}

\* The English month names and abbreviations, by month number.
MonthNames ==
    << {<<74, 97, 110>>, <<74, 97, 110, 117, 97, 114, 121>>},
       {<<70, 101, 98>>, <<70, 101, 98, 114, 117, 97, 114, 121>>},
       {<<77, 97, 114>>, <<77, 97, 114, 99, 104>>},
       {<<65, 112, 114>>, <<65, 112, 114, 105, 108>>},
       {<<77, 97, 121>>},
       {<<74, 117, 110>>, <<74, 117, 110, 101>>},
       {<<74, 117, 108>>, <<74, 117, 108, 121>>},
       {<<65, 117, 103>>, <<65, 117, 103, 117, 115, 116>>},
       {<<83, 101, 112>>, <<83, 101, 112, 116>>, <<83, 101, 112, 116, 101, 109, 98, 101, 114>>},
       {<<79, 99, 116>>, <<79, 99, 116, 111, 98, 101, 114>>},
       {<<78, 111, 118>>, <<78, 111, 118, 101, 109, 98, 101, 114>>},
       {<<68, 101, 99>>, <<68, 101, 99, 101, 109, 98, 101, 114>>} >>

\* The strings that denote the day in one of the documented formats:
\* M/D/YYYY, M-D-YYYY, YYYY-M-D (one or two digits) and "Month D, YYYY"
\* (name or abbreviation, any letter case, comma optional).
Renderings(day) ==
    LET year == NumberToString(day[1])
        Written(n, padded) ==
            IF padded THEN <<48 + (n \div 10), 48 + (n % 10)>>
            ELSE NumberToString(n)
        UpperCase(s) ==
            [k \in 1..Len(s) |-> IF s[k] \in 97..122 THEN s[k] - 32 ELSE s[k]]
        m == day[2]
        d == day[3]
        numeric == UNION {{Written(m, p) \o <<47>> \o Written(d, q) \o <<47>> \o year,
                           Written(m, p) \o <<45>> \o Written(d, q) \o <<45>> \o year,
                           year \o <<45>> \o Written(m, p) \o <<45>> \o Written(d, q)}
                          : p \in BOOLEAN, q \in BOOLEAN}
        cased == UNION {{n, UpperCase(n), toLowerCase(n)} : n \in MonthNames[m]}
        named == UNION {{n \o <<32>> \o Written(d, FALSE) \o <<44, 32>> \o year,
                         n \o <<32>> \o Written(d, FALSE) \o <<32>> \o year}
                        : n \in cased}
    IN  numeric \cup named

\* Strings in none of the documented formats: "not a date", "", "2024/01/05",
\* "5 Jan 2024", "Jan. 5, 2024", "1/5/24", " 1/5/2024", "Janu 5, 2024".
NotDates ==
    {<<110, 111, 116, 32, 97, 32, 100, 97, 116, 101>>,
     <<>>,
     <<50, 48, 50, 52, 47, 48, 49, 47, 48, 53>>,
     <<53, 32, 74, 97, 110, 32, 50, 48, 50, 52>>,
     <<74, 97, 110, 46, 32, 53, 44, 32, 50, 48, 50, 52>>,
     <<49, 47, 53, 47, 50, 52>>,
     <<32, 49, 47, 53, 47, 50, 48, 50, 52>>,
     <<74, 97, 110, 117, 32, 53, 44, 32, 50, 48, 50, 52>>}

DateInputs == NotDates \cup UNION {Renderings(day) : day \in Days}

\* One call is about to be made, with any of the strings.
DateInit ==
    /\ QueueInit
    /\ requests = 0
    /\ StoreInit
    /\ placesApiKey = TRUE
    /\ args \in {<<s>> : s \in DateInputs}
    /\ ret = << >>
    /\ retry = << >>
    /\ job = << >>

\* The call returns.
DateCall ==
    /\ ret = << >>
    /\ args # << >>
    /\ ret' = <<parseTransactionDate(args[1])>>
    /\ UNCHANGED <<queueVars, requests, storeVars, args, callVars, blobs>>

DateSpec == DateInit /\ [][DateCall]_vars

\* ================================================ lib/places (the lookups)
PLACE_TYPE_TO_CATEGORY ==
    [restaurant |-> "Food & Dining",
     cafe |-> "Food & Dining",
     bakery |-> "Food & Dining",
     bar |-> "Food & Dining",
     meal_delivery |-> "Food & Dining",
     meal_takeaway |-> "Food & Dining",
     food |-> "Food & Dining",
     store |-> "Shopping",
     supermarket |-> "Shopping",
     grocery_or_supermarket |-> "Shopping",
     shopping_mall |-> "Shopping",
     clothing_store |-> "Shopping",
     department_store |-> "Shopping",
     electronics_store |-> "Shopping",
     home_goods_store |-> "Shopping",
     jewelry_store |-> "Shopping",
     shoe_store |-> "Shopping",
     convenience_store |-> "Shopping",
     liquor_store |-> "Shopping",
     pet_store |-> "Shopping",
     pharmacy |-> "Shopping",
     movie_theater |-> "Entertainment",
     bowling_alley |-> "Entertainment",
     casino |-> "Entertainment",
     night_club |-> "Entertainment",
     amusement_park |-> "Entertainment",
     aquarium |-> "Entertainment",
     museum |-> "Entertainment",
     tourist_attraction |-> "Entertainment",
     zoo |-> "Entertainment",
     stadium |-> "Entertainment",
     gas_station |-> "Transportation",
     parking |-> "Transportation",
     car_repair |-> "Transportation",
     car_dealer |-> "Transportation",
     car_rental |-> "Transportation",
     car_wash |-> "Transportation",
     taxi_stand |-> "Transportation",
     transit_station |-> "Transportation",
     subway_station |-> "Transportation",
     train_station |-> "Transportation",
     bus_station |-> "Transportation",
     airport |-> "Transportation",
     lodging |-> "Travel",
     hotel |-> "Travel",
     travel_agency |-> "Travel",
     campground |-> "Travel",
     rv_park |-> "Travel",
     electrician |-> "Utilities",
     plumber |-> "Utilities",
     roofing_contractor |-> "Utilities",
     general_contractor |-> "Utilities",
     doctor |-> "Healthcare",
     dentist |-> "Healthcare",
     hospital |-> "Healthcare",
     physiotherapist |-> "Healthcare",
     veterinary_care |-> "Healthcare",
     health |-> "Healthcare",
     medical |-> "Healthcare",
     school |-> "Education",
     university |-> "Education",
     library |-> "Education",
     book_store |-> "Education",
     bank |-> "Business",
     atm |-> "Business",
     accounting |-> "Business",
     insurance_agency |-> "Business",
     lawyer |-> "Business",
     real_estate_agency |-> "Business",
     post_office |-> "Business",
     courthouse |-> "Business",
     embassy |-> "Business",
     local_government_office |-> "Business",
     police |-> "Business",
     fire_station |-> "Business",
     gym |-> "Entertainment",
     spa |-> "Entertainment",
     beauty_salon |-> "Shopping",
     hair_care |-> "Shopping",
     laundry |-> "Shopping",
     dry_cleaning |-> "Shopping",
     florist |-> "Shopping",
     furniture_store |-> "Shopping",
     hardware_store |-> "Shopping",
     moving_company |-> "Utilities",
     storage |-> "Utilities"]

\* Keyword and category, in the order of the table: amazon, uber eats, ..
COMMON_MERCHANT_MAPPINGS ==
    << << <<97, 109, 97, 122, 111, 110>>, "Shopping" >>,
       << <<117, 98, 101, 114, 32, 101, 97, 116, 115>>, "Food & Dining" >>,
       << <<100, 111, 111, 114, 100, 97, 115, 104>>, "Food & Dining" >>,
       << <<103, 114, 117, 98, 104, 117, 98>>, "Food & Dining" >>,
       << <<112, 111, 115, 116, 109, 97, 116, 101, 115>>, "Food & Dining" >>,
       << <<105, 110, 115, 116, 97, 99, 97, 114, 116>>, "Shopping" >>,
       << <<110, 101, 116, 102, 108, 105, 120>>, "Entertainment" >>,
       << <<115, 112, 111, 116, 105, 102, 121>>, "Entertainment" >>,
       << <<104, 117, 108, 117>>, "Entertainment" >>,
       << <<100, 105, 115, 110, 101, 121>>, "Entertainment" >>,
       << <<97, 112, 112, 108, 101>>, "Shopping" >>,
       << <<103, 111, 111, 103, 108, 101>>, "Business" >>,
       << <<109, 105, 99, 114, 111, 115, 111, 102, 116>>, "Business" >>,
       << <<115, 104, 101, 108, 108>>, "Transportation" >>,
       << <<98, 112>>, "Transportation" >>,
       << <<99, 104, 101, 118, 114, 111, 110>>, "Transportation" >>,
       << <<101, 120, 120, 111, 110>>, "Transportation" >>,
       << <<109, 111, 98, 105, 108>>, "Transportation" >>,
       << <<99, 111, 115, 116, 99, 111>>, "Shopping" >>,
       << <<119, 97, 108, 109, 97, 114, 116>>, "Shopping" >>,
       << <<116, 97, 114, 103, 101, 116>>, "Shopping" >>,
       << <<119, 97, 108, 103, 114, 101, 101, 110, 115>>, "Shopping" >>,
       << <<99, 118, 115>>, "Shopping" >>,
       << <<115, 116, 97, 114, 98, 117, 99, 107, 115>>, "Food & Dining" >>,
       << <<109, 99, 100, 111, 110, 97, 108, 100>>, "Food & Dining" >>,
       << <<99, 104, 105, 112, 111, 116, 108, 101>>, "Food & Dining" >>,
       << <<115, 117, 98, 119, 97, 121>>, "Food & Dining" >>,
       << <<99, 104, 105, 99, 107, 45, 102, 105, 108, 45, 97>>, "Food & Dining" >>,
       << <<117, 98, 101, 114>>, "Transportation" >>,
       << <<108, 121, 102, 116>>, "Transportation" >>,
       << <<97, 105, 114, 98, 110, 98>>, "Travel" >>,
       << <<109, 97, 114, 114, 105, 111, 116, 116>>, "Travel" >>,
       << <<104, 105, 108, 116, 111, 110>>, "Travel" >>,
       << <<100, 101, 108, 116, 97>>, "Travel" >>,
       << <<117, 110, 105, 116, 101, 100>>, "Travel" >>,
       << <<97, 109, 101, 114, 105, 99, 97, 110, 32, 97, 105, 114, 108, 105, 110, 101, 115>>, "Travel" >>,
       << <<115, 111, 117, 116, 104, 119, 101, 115, 116>>, "Travel" >> >>

\* The first entry of the table whose keyword the lower-cased name includes.
categorizeByCommonName(merchantName) ==
    LET lowerName == toLowerCase(merchantName)
        includes(str, keyword) ==
            \E k \in 0..(Len(str) - Len(keyword)) :
                SubSeq(str, k + 1, k + Len(keyword)) = keyword
        hits == {k \in 1..Len(COMMON_MERCHANT_MAPPINGS) :
                    includes(lowerName, COMMON_MERCHANT_MAPPINGS[k][1])}
    IN  IF hits = {} THEN NULL
        ELSE Some(COMMON_MERCHANT_MAPPINGS[CHOOSE k \in hits :
                                               \A x \in hits : k <= x][2])

\* What the text search of the Places API may do: the fetch or the parsing of
\* its body throws, or a body arrives with a status and results.
PlacesAnswers ==
    {[threw |-> TRUE, status |-> "", results |-> << >>],
     [threw |-> FALSE, status |-> "ZERO_RESULTS", results |-> << >>],
     [threw |-> FALSE, status |-> "OK", results |-> << >>],
     [threw |-> FALSE, status |-> "OK",
      results |-> <<[types |-> <<"point_of_interest", "establishment">>]>>],
     [threw |-> FALSE, status |-> "OK",
      results |-> <<[types |-> <<"establishment", "gas_station">>]>>]}

\* What an await yields when the awaited call throws.
Thrown == <<"thrown", "error">>

\* Mutant: categorizeMerchant without its try/catch.
categorizeMerchantNoCatch(merchantName, answer) ==
    IF answer.threw THEN Thrown
    ELSE IF answer.status # "OK" \/ answer.results = << >> THEN NULL
    ELSE LET types == answer.results[1].types
             mapped == {k \in 1..Len(types) : types[k] \in DOMAIN PLACE_TYPE_TO_CATEGORY}
         IN  IF mapped = {} THEN NULL
             ELSE Some(PLACE_TYPE_TO_CATEGORY[types[CHOOSE k \in mapped :
                                                        \A x \in mapped : k <= x]])

\* categorizeMerchant, given what the Places API answers.
categorizeMerchant(merchantName, answer) ==
    IF answer.threw THEN NULL
    ELSE IF answer.status # "OK" \/ answer.results = << >> THEN NULL
    ELSE LET types == answer.results[1].types
             mapped == {k \in 1..Len(types) : types[k] \in DOMAIN PLACE_TYPE_TO_CATEGORY}
         IN  IF mapped = {} THEN NULL
             ELSE Some(PLACE_TYPE_TO_CATEGORY[types[CHOOSE k \in mapped :
                                                        \A x \in mapped : k <= x]])

getMerchantCategory(merchantName, answer) ==
    IF categorizeByCommonName(merchantName) # NULL
    THEN categorizeByCommonName(merchantName)
    ELSE categorizeMerchant(merchantName, answer)

\* ================================================== the category tables
\* Mutant: the override is looked up by the exact merchant name.
UserCategoryRowsExact(userId, merchantName) ==
    {r \in user_merchant_categories :
        r.user_id = userId /\ r.merchant_name = merchantName}

\* SELECT category FROM user_merchant_categories
\* WHERE user_id = $1 AND LOWER(merchant_name) = LOWER($2)
UserCategoryRows(userId, merchantName) ==
    {r \in user_merchant_categories :
        r.user_id = userId
        /\ toLowerCase(r.merchant_name) = toLowerCase(merchantName)}

\* rows[0]?.category || null: the statement has no ORDER BY, so any of the
\* rows may come first.
getUserMerchantCategory(userId, merchantName) ==
    IF UserCategoryRows(userId, merchantName) = {} THEN {NULL}
    ELSE {Some(r.category) : r \in UserCategoryRows(userId, merchantName)}

\* Mutant: the override is written for every owner.
setUserMerchantCategoryForAll(userId, merchantName, category, source) ==
    {r \in user_merchant_categories : r.merchant_name # merchantName}
    \cup {[user_id |-> u, merchant_name |-> merchantName,
           category |-> category, source |-> source] : u \in Owners}

\* INSERT INTO user_merchant_categories .. ON CONFLICT (user_id, merchant_name)
\* DO UPDATE SET category = $3, source = $4, updated_at = NOW()
setUserMerchantCategory(userId, merchantName, category, source) ==
    {r \in user_merchant_categories :
        ~(r.user_id = userId /\ r.merchant_name = merchantName)}
    \cup {[user_id |-> userId, merchant_name |-> merchantName,
           category |-> category, source |-> source]}

\* The global cache is keyed case-insensitively on the merchant name.
getGlobalMerchantCategory(merchantName) ==
    IF toLowerCase(merchantName) \in DOMAIN merchant_categories
    THEN Some(merchant_categories[toLowerCase(merchantName)].category)
    ELSE NULL

\* The table after the mapping is written into the global cache with its tag.
setGlobalMerchantCategory(merchantName, category, source) ==
    [k \in DOMAIN merchant_categories \cup {toLowerCase(merchantName)} |->
        IF k = toLowerCase(merchantName)
        THEN [category |-> category, source |-> source]
        ELSE merchant_categories[k]]

\* ============================================= processJob: the candidates
MaxPuts == 2          \* category changes (PUT) served

\* rawTransactions: what extractTransactionsFrom.. returns. The raw dates are
\* "1/5/2024", "2024-01-05" (the same day), "not a date" and the day-first
\* "31/12/2024". The lists: one candidate; a candidate twice, in another
\* spelling of name and date; a candidate without a date before one with a
\* date; a candidate with a day-first date before one with a month-first date.
Extractions ==
    LET RawDate == <<49, 47, 53, 47, 50, 48, 50, 52>>
        RawDateIso == <<50, 48, 50, 52, 45, 48, 49, 45, 48, 53>>
        RawNotADate == <<110, 111, 116, 32, 97, 32, 100, 97, 116, 101>>
        RawDayFirst == <<51, 49, 47, 49, 50, 47, 50, 48, 50, 52>>
        Candidate(name, date) ==
            [merchant_name |-> name, transaction_date |-> date,
             amount_spent |-> 12, bitcoin_rewards |-> 0]
    IN  {<<Candidate(MerchantBP, RawDate)>>,
         <<Candidate(MerchantBP, RawDate), Candidate(MerchantBp, RawDateIso)>>,
         <<Candidate(MerchantZed, RawNotADate), Candidate(MerchantZed, RawDate)>>,
         <<Candidate(MerchantBP, RawDayFirst), Candidate(MerchantZed, RawDate)>>}

\* The categories a user picks in the category editor.
PutCategories == {"Travel", "Shopping"}

\* transaction_date DATE NOT NULL: PostgreSQL takes a YYYY-MM-DD string only
\* if it is a day of the calendar, and raises an error (22008) otherwise.
DateAccepted(date) ==
    LET RECURSIVE ToNumber(_)
        ToNumber(digits) ==
            IF digits = << >> THEN 0
            ELSE ToNumber(SubSeq(digits, 1, Len(digits) - 1)) * 10
                 + (digits[Len(digits)] - 48)
        p == Split(date, 45)
        y == ToNumber(p[1])
        m == ToNumber(p[2])
        d == ToNumber(p[3])
        leap == (y % 4 = 0 /\ y % 100 # 0) \/ y % 400 = 0
        daysIn == IF m = 2 THEN (IF leap THEN 29 ELSE 28)
                  ELSE IF m \in {4, 6, 9, 11} THEN 30 ELSE 31
    IN  y >= 1 /\ m \in 1..12 /\ d >= 1 /\ d <= daysIn

StoreStart ==
    /\ QueueInit
    /\ requests = 0
    /\ StoreInit
    /\ placesApiKey \in BOOLEAN
    /\ args = << >>
    /\ ret = << >>
    /\ retry = << >>
    /\ job = << >>

\* The candidate the loop of run r is at.
T(r) == r.rawTransactions[r.i]

\* The id under which run r inserts its current candidate.
TransactionId(r) ==
    generateTransactionId(r.user_id, T(r).merchant_name,
                          Val(parseTransactionDate(T(r).transaction_date)),
                          T(r).amount_spent, T(r).bitcoin_rewards)

\* The row run r inserts for its current candidate.
TransactionRow(r) ==
    [user_id |-> r.user_id, merchant_name |-> T(r).merchant_name,
     transaction_date |-> Val(parseTransactionDate(T(r).transaction_date)),
     amount_spent |-> T(r).amount_spent,
     bitcoin_rewards |-> T(r).bitcoin_rewards, category |-> r.category]

\* The catch block of processJob: UPDATE jobs SET status = 'failed', ..
FailedRun(r) == [r EXCEPT !.at = "failed", !.status = "failed"]

\* A worker starts processJob on a claimed job of owner u: the row is set to
\* processing and the extraction returns raw.
StartJob(w, u, raw) ==
    /\ run[w].at = "idle"
    /\ run' = [run EXCEPT ![w] =
                  [IdleRun EXCEPT !.at = "loop", !.user_id = u,
                                  !.rawTransactions = raw, !.i = 1,
                                  !.status = "processing"]]
    /\ UNCHANGED <<queueVars, requests, transactions, user_merchant_categories,
                   merchant_categories, placesApiKey, pureVars, callVars, blobs>>

\* Mutant: a candidate without a date is counted as a duplicate.
SkipCandidateCounted(w) ==
    /\ run[w].at = "loop"
    /\ run[w].i <= Len(run[w].rawTransactions)
    /\ parseTransactionDate(T(run[w]).transaction_date) = NULL
    /\ run' = [run EXCEPT ![w].i = @ + 1, ![w].duplicates = @ + 1]
    /\ UNCHANGED <<queueVars, requests, transactions, user_merchant_categories,
                   merchant_categories, placesApiKey, pureVars, callVars, blobs>>

\* if (!formattedDate) continue;
SkipCandidate(w) ==
    /\ run[w].at = "loop"
    /\ run[w].i <= Len(run[w].rawTransactions)
    /\ parseTransactionDate(T(run[w]).transaction_date) = NULL
    /\ run' = [run EXCEPT ![w].i = @ + 1]
    /\ UNCHANGED <<queueVars, requests, transactions, user_merchant_categories,
                   merchant_categories, placesApiKey, pureVars, callVars, blobs>>

\* let category = await getUserMerchantCategory(user_id, t.merchant_name);
GetUserCategory(w) ==
    /\ run[w].at = "loop"
    /\ run[w].i <= Len(run[w].rawTransactions)
    /\ parseTransactionDate(T(run[w]).transaction_date) # NULL
    /\ \E c \in getUserMerchantCategory(run[w].user_id, T(run[w]).merchant_name) :
          run' = [run EXCEPT ![w].category = c,
                             ![w].at = IF c # NULL THEN "insert" ELSE "global"]
    /\ UNCHANGED <<queueVars, requests, transactions, user_merchant_categories,
                   merchant_categories, placesApiKey, pureVars, callVars, blobs>>

\* if (!category) category = await getGlobalMerchantCategory(t.merchant_name);
\* if (!category) category = categorizeByCommonName(t.merchant_name); ..
GetGlobalCategory(w) ==
    /\ run[w].at = "global"
    /\ LET name == T(run[w]).merchant_name
           cached == getGlobalMerchantCategory(name)
           common == categorizeByCommonName(name)
       IN  run' = [run EXCEPT
                      ![w].category = IF cached # NULL THEN cached ELSE common,
                      ![w].at = IF cached # NULL THEN "insert"
                                ELSE IF common # NULL THEN "setCommon"
                                ELSE IF placesApiKey THEN "places"
                                ELSE "insert"]
    /\ UNCHANGED <<queueVars, requests, transactions, user_merchant_categories,
                   merchant_categories, placesApiKey, pureVars, callVars, blobs>>

\* Mutant: both stages tag what they cache as google_places.
SourceTagAlwaysPlaces(at) == "google_places"

\* The tag under which a stage caches what it found.
SourceTag(at) == IF at = "setCommon" THEN "common_name" ELSE "google_places"

\* await setGlobalMerchantCategory(t.merchant_name, category, ..)
SetGlobalCategory(w) ==
    /\ run[w].at \in {"setCommon", "setPlaces"}
    /\ merchant_categories' =
           setGlobalMerchantCategory(T(run[w]).merchant_name,
                                     Val(run[w].category), SourceTag(run[w].at))
    /\ run' = [run EXCEPT ![w].at = "insert"]
    /\ UNCHANGED <<queueVars, requests, transactions, user_merchant_categories,
                   placesApiKey, pureVars, callVars, blobs>>

\* category = await getMerchantCategory(t.merchant_name, placesApiKey);
\* an exception leaves the loop for the catch block of processJob.
LookupPlaces(w) ==
    /\ run[w].at = "places"
    /\ \E answer \in PlacesAnswers :
          LET found == getMerchantCategory(T(run[w]).merchant_name, answer)
          IN  run' = [run EXCEPT ![w] =
                         IF found = Thrown THEN FailedRun(@)
                         ELSE [@ EXCEPT !.category = found,
                                        !.answer = Some(answer),
                                        !.at = IF found # NULL THEN "setPlaces"
                                               ELSE "insert"]]
    /\ UNCHANGED <<queueVars, requests, transactions, user_merchant_categories,
                   merchant_categories, placesApiKey, pureVars, callVars, blobs>>

\* INSERT INTO transactions (..) VALUES (..) ON CONFLICT (id) DO NOTHING:
\* a date the column does not take raises error 22008; an id that is there
\* already raises no error, the statement inserts nothing; else the row is
\* inserted.
InsertOutcome(id, row) ==
    IF ~DateAccepted(row.transaction_date) THEN "22008"
    ELSE IF id \in DOMAIN transactions THEN "nothing"
    ELSE "inserted"

\* try { await pool.query(INSERT ..); added++; }
\* catch (err) { if (err.code === "23505") duplicates++; else throw err; }
\* inserted counts the rows the statements of the run have inserted.
InsertTransaction(w) ==
    /\ run[w].at = "insert"
    /\ LET r == run[w]
           id == TransactionId(r)
           outcome == InsertOutcome(id, TransactionRow(r))
           next == [r EXCEPT !.i = @ + 1, !.category = NULL,
                             !.answer = NULL, !.at = "loop"]
       IN  /\ transactions' =
                  IF outcome = "inserted"
                  THEN [k \in DOMAIN transactions \cup {id} |->
                           IF k = id THEN TransactionRow(r) ELSE transactions[k]]
                  ELSE transactions
           /\ run' = [run EXCEPT ![w] =
                         IF outcome = "inserted"
                         THEN [next EXCEPT !.added = @ + 1, !.inserted = @ + 1]
                         ELSE IF outcome = "nothing"
                         THEN [next EXCEPT !.added = @ + 1]
                         ELSE IF outcome = "23505"
                         THEN [next EXCEPT !.duplicates = @ + 1]
                         ELSE FailedRun(r)]
    /\ UNCHANGED <<queueVars, requests, user_merchant_categories,
                   merchant_categories, placesApiKey, pureVars, callVars, blobs>>

\* UPDATE jobs SET status = 'completed', result = {.., added, duplicates, ..}
CompleteJob(w) ==
    /\ run[w].at = "loop"
    /\ run[w].i > Len(run[w].rawTransactions)
    /\ run' = [run EXCEPT ![w].at = "completed", ![w].status = "completed"]
    /\ UNCHANGED <<queueVars, requests, transactions, user_merchant_categories,
                   merchant_categories, placesApiKey, pureVars, callVars, blobs>>

\* PUT /api/transactions/[id] by the signed-in user userId with a category
\* (<< >> is null): 404 without the row, 403 for a row of another owner.
PutCategory(userId, id, category) ==
    /\ requests < MaxPuts
    /\ requests' = requests + 1
    /\ IF id \notin DOMAIN transactions \/ transactions[id].user_id # userId
       THEN UNCHANGED <<transactions, user_merchant_categories>>
       ELSE /\ transactions' = [transactions EXCEPT ![id].category = category]
            /\ user_merchant_categories' =
                   IF category # NULL
                   THEN setUserMerchantCategory(userId, transactions[id].merchant_name,
                                                Val(category), "manual")
                   ELSE user_merchant_categories
    /\ UNCHANGED <<queueVars, merchant_categories, placesApiKey, run, pureVars, callVars, blobs>>

StoreNext ==
    \/ \E w \in Workers : \E u \in Owners : \E raw \in Extractions :
          StartJob(w, u, raw)
    \/ \E w \in Workers : SkipCandidate(w)
    \/ \E w \in Workers : GetUserCategory(w)
    \/ \E w \in Workers : GetGlobalCategory(w)
    \/ \E w \in Workers : SetGlobalCategory(w)
    \/ \E w \in Workers : LookupPlaces(w)
    \/ \E w \in Workers : InsertTransaction(w)
    \/ \E w \in Workers : CompleteJob(w)
    \/ \E userId \in Owners : \E id \in DOMAIN transactions :
          \E category \in {NULL} \cup {Some(c) : c \in PutCategories} :
              PutCategory(userId, id, category)

StoreSpec == StoreStart /\ [][StoreNext]_vars

\* ============================================================== withRetry
\* What fn() rejects with: errors with their status and message. The first
\* four are rate-limit signals: status 429, "HTTP 429", "rate limit reached",
\* "quota exceeded"; "server error" and "Rate Limit" (status 400) are not.
RetryErrors ==
    <<[status |-> <<429>>,
       message |-> <<84, 111, 111, 32, 77, 97, 110, 121, 32, 82, 101, 113,
                     117, 101, 115, 116, 115>>],
      [status |-> << >>, message |-> <<72, 84, 84, 80, 32, 52, 50, 57>>],
      [status |-> << >>,
       message |-> <<114, 97, 116, 101, 32, 108, 105, 109, 105, 116, 32, 114,
                     101, 97, 99, 104, 101, 100>>],
      [status |-> << >>,
       message |-> <<113, 117, 111, 116, 97, 32, 101, 120, 99, 101, 101, 100,
                     101, 100>>],
      [status |-> <<500>>,
       message |-> <<115, 101, 114, 118, 101, 114, 32, 101, 114, 114, 111, 114>>],
      [status |-> <<400>>,
       message |-> <<82, 97, 116, 101, 32, 76, 105, 109, 105, 116>>]>>

\* What fn() resolves with.
Resolved == [status |-> <<200>>, message |-> << >>]

\* maxRetries and baseDelayMs of the two copies of withRetry (worker route,
\* process-frames route); no caller passes other values.
RetryDefaults == {<<5, 2000>>, <<3, 1000>>}

\* Mutant: every error is taken for a rate-limit signal.
isRateLimitAlways(error) == TRUE

\* error?.status === 429 || error?.message?.includes('429') || .. 'rate limit'
\* .. 'quota'
isRateLimit(error) ==
    LET includes(str, keyword) ==
            \E k \in 0..(Len(str) - Len(keyword)) :
                SubSeq(str, k + 1, k + Len(keyword)) = keyword
    IN  \/ error.status = <<429>>
        \/ includes(error.message, <<52, 50, 57>>)
        \/ includes(error.message,
                    <<114, 97, 116, 101, 32, 108, 105, 109, 105, 116>>)
        \/ includes(error.message, <<113, 117, 111, 116, 97>>)

\* Mutant: the delay grows by baseDelayMs per attempt.
LinearDelay(baseDelayMs, attempt) == baseDelayMs * (attempt + 1)

\* const delay = baseDelayMs * Math.pow(2, attempt)
Delay(baseDelayMs, attempt) == baseDelayMs * 2^attempt

\* withRetry is entered from extractTransactionsFromFrames in a processJob.
\* outcomes (what each fn() did) and delays (what each setTimeout waited) are
\* the history of the call; settled is what withRetry resolves or rejects
\* with; status and error are the columns of the job.
RetryInit ==
    /\ QueueInit
    /\ requests = 0
    /\ StoreInit
    /\ placesApiKey = TRUE
    /\ args = << >>
    /\ ret = << >>
    /\ job = << >>
    /\ retry \in {[at |-> "loop", maxRetries |-> d[1], baseDelayMs |-> d[2],
                   attempt |-> 0, lastError |-> NULL, outcomes |-> << >>,
                   delays |-> << >>, settled |-> NULL,
                   status |-> "processing", error |-> NULL] :
                      d \in RetryDefaults}

\* for (let attempt = 0; attempt < maxRetries; attempt++) { try { return await
\* fn(); } catch (error) { .. } } throw lastError;
Attempt(outcome) ==
    /\ retry.at = "loop"
    /\ retry' =
          IF retry.attempt >= retry.maxRetries
          THEN [retry EXCEPT !.at = "thrown", !.settled = retry.lastError]
          ELSE IF outcome = Resolved
          THEN [retry EXCEPT !.at = "returned", !.settled = Some(outcome),
                             !.outcomes = Append(@, outcome)]
          ELSE IF isRateLimit(outcome) /\ retry.attempt < retry.maxRetries - 1
          THEN [retry EXCEPT !.at = "delay", !.lastError = Some(outcome),
                             !.outcomes = Append(@, outcome)]
          ELSE [retry EXCEPT !.at = "thrown", !.lastError = Some(outcome),
                             !.settled = Some(outcome),
                             !.outcomes = Append(@, outcome)]
    /\ UNCHANGED <<queueVars, requests, storeVars, pureVars, job, blobs>>

\* await new Promise(resolve => setTimeout(resolve, delay)); continue;
Backoff ==
    /\ retry.at = "delay"
    /\ retry' = [retry EXCEPT
                    !.at = "loop",
                    !.delays = Append(@, Delay(retry.baseDelayMs, retry.attempt)),
                    !.attempt = @ + 1]
    /\ UNCHANGED <<queueVars, requests, storeVars, pureVars, job, blobs>>

\* The rejection leaves extractTransactionsFromFrames for the catch block of
\* processJob: UPDATE jobs SET status = 'failed', error = error.message ..
RetryFailJob ==
    /\ retry.at = "thrown"
    /\ retry' = [retry EXCEPT !.at = "failed", !.status = "failed",
                              !.error = Some(Val(retry.settled).message)]
    /\ UNCHANGED <<queueVars, requests, storeVars, pureVars, job, blobs>>

RetryNext ==
    \/ \E outcome \in {Resolved} \cup {RetryErrors[k] : k \in DOMAIN RetryErrors} :
          Attempt(outcome)
    \/ Backoff
    \/ RetryFailJob

RetrySpec == RetryInit /\ [][RetryNext]_vars

\* The event loop runs every continuation that is ready: promises settle and
\* timers fire.
RetryLiveSpec == RetrySpec /\ WF_vars(RetryNext)

\* ================================== extractTransactionsFromFrames: parsing
\* JSON.parse(text): <<TRUE, value>>, or <<FALSE>> for a SyntaxError. A value
\* is <<"array", elements>>, <<"object", <<key, value>> pairs>>,
\* <<"string", codes>>, <<"number", codes>> or <<"literal", codes>>. Strings
\* take the escapes \" \\ \/ \b \f \n \r \t; \uXXXX is not in the texts of the
\* model. A number is kept as it is written.
JSONparse(text) ==
    LET Fail == <<FALSE, << >>, 0>>
        At(i) == IF i <= Len(text) THEN text[i] ELSE 0
        Unescaped == [c \in {34, 92, 47} |-> c] @@
                     (98 :> 8) @@ (102 :> 12) @@ (110 :> 10) @@ (114 :> 13) @@ (116 :> 9)
        RECURSIVE ws(_), digits(_), chars(_, _), value(_), elements(_, _),
                  members(_, _)
        ws(i) == IF At(i) \in {32, 9, 10, 13} THEN ws(i + 1) ELSE i
        digits(i) == IF At(i) \in Digit THEN digits(i + 1) ELSE i
        \* the characters of a string, from i on, up to its closing quote
        chars(i, acc) ==
            IF At(i) = 34 THEN <<TRUE, <<"string", acc>>, i + 1>>
            ELSE IF At(i) < 32 THEN Fail
            ELSE IF At(i) = 92
            THEN IF At(i + 1) \in {34, 92, 47, 98, 102, 110, 114, 116}
                 THEN chars(i + 2, Append(acc, Unescaped[At(i + 1)]))
                 ELSE Fail
            ELSE chars(i + 1, Append(acc, At(i)))
        \* the end of the integer, fraction and exponent of a number that
        \* starts at i; 0 when there is none
        integer(i) == IF At(i) = 48 THEN i + 1
                      ELSE IF At(i) \in Digit THEN digits(i) ELSE 0
        fraction(i) == IF i = 0 THEN 0
                       ELSE IF At(i) # 46 THEN i
                       ELSE IF At(i + 1) \in Digit THEN digits(i + 1) ELSE 0
        exponent(i) == IF i = 0 THEN 0
                       ELSE IF At(i) \notin {69, 101} THEN i
                       ELSE IF At(i + 1) \in {43, 45}
                       THEN IF At(i + 2) \in Digit THEN digits(i + 2) ELSE 0
                       ELSE IF At(i + 1) \in Digit THEN digits(i + 1) ELSE 0
        token(i, end) == IF end = 0 THEN Fail
                         ELSE <<TRUE, <<"number", SubSeq(text, i, end - 1)>>, end>>
        number(i) ==
            token(i, exponent(fraction(integer(IF At(i) = 45 THEN i + 1 ELSE i))))
        literal(i, word) ==
            IF /\ i + Len(word) - 1 <= Len(text)
               /\ SubSeq(text, i, i + Len(word) - 1) = word
            THEN <<TRUE, <<"literal", word>>, i + Len(word)>>
            ELSE Fail
        value(i) ==
            LET c == At(i)
            IN  IF c = 123
                THEN IF At(ws(i + 1)) = 125
                     THEN <<TRUE, <<"object", << >>>>, ws(i + 1) + 1>>
                     ELSE members(ws(i + 1), << >>)
                ELSE IF c = 91
                THEN IF At(ws(i + 1)) = 93
                     THEN <<TRUE, <<"array", << >>>>, ws(i + 1) + 1>>
                     ELSE elements(ws(i + 1), << >>)
                ELSE IF c = 34 THEN chars(i + 1, << >>)
                ELSE IF c = 45 \/ c \in Digit THEN number(i)
                ELSE IF c = 116 THEN literal(i, <<116, 114, 117, 101>>)
                ELSE IF c = 102 THEN literal(i, <<102, 97, 108, 115, 101>>)
                ELSE IF c = 110 THEN literal(i, <<110, 117, 108, 108>>)
                ELSE Fail
        \* the elements of an array, from i on, up to its closing bracket
        elements(i, acc) ==
            LET v == value(i)
                j == ws(v[3])
            IN  IF ~v[1] THEN Fail
                ELSE IF At(j) = 44 THEN elements(ws(j + 1), Append(acc, v[2]))
                ELSE IF At(j) = 93
                THEN <<TRUE, <<"array", Append(acc, v[2])>>, j + 1>>
                ELSE Fail
        \* the members of an object, from i on, up to its closing brace
        members(i, acc) ==
            LET k == IF At(i) = 34 THEN chars(i + 1, << >>) ELSE Fail
                colon == ws(k[3])
                v == IF k[1] /\ At(colon) = 58 THEN value(ws(colon + 1)) ELSE Fail
                j == ws(v[3])
            IN  IF ~v[1] THEN Fail
                ELSE IF At(j) = 44
                THEN members(ws(j + 1), Append(acc, <<k[2][2], v[2]>>))
                ELSE IF At(j) = 125
                THEN <<TRUE, <<"object", Append(acc, <<k[2][2], v[2]>>)>>, j + 1>>
                ELSE Fail
        top == value(ws(1))
    IN  IF top[1] /\ ws(top[3]) = Len(text) + 1 THEN <<TRUE, top[2]>>
        ELSE <<FALSE>>

\* extractTransactionsFromFrames from the response of the model on: the
\* array it returns (value), or the Error it throws (message).
extractTransactionsFromFrames(responseContent) ==
    LET Returns(list) == [threw |-> FALSE, value |-> list, message |-> ""]
        Throws(msg) == [threw |-> TRUE, value |-> << >>, message |-> msg]
        includes(str, keyword) ==
            \E k \in 0..(Len(str) - Len(keyword)) :
                SubSeq(str, k + 1, k + Len(keyword)) = keyword
        fence == <<96, 96, 96>>
        \* .replace(/^```(?:json)?\s*/i, '')
        opened(content) ==
            IF Len(content) < 3 \/ SubSeq(content, 1, 3) # fence THEN content
            ELSE LET rest == SubSeq(content, 4, Len(content))
                 IN  IF /\ Len(rest) >= 4
                        /\ toLowerCase(SubSeq(rest, 1, 4)) = <<106, 115, 111, 110>>
                     THEN trimStart(SubSeq(rest, 5, Len(rest)))
                     ELSE trimStart(rest)
        \* .replace(/```\s*$/, '')
        closed(content, body) ==
            IF Len(body) >= 3 /\ SubSeq(body, Len(body) - 2, Len(body)) = fence
            THEN SubSeq(body, 1, Len(body) - 3)
            ELSE content
        \* cleanedContent.match(/\[[\s\S]*\]/): <<jsonMatch[0]>>, << >> for null
        match(cleanedContent) ==
            LET opening == {k \in 1..Len(cleanedContent) : cleanedContent[k] = 91}
                first == CHOOSE k \in opening : \A x \in opening : k <= x
                closing == {k \in 1..Len(cleanedContent) :
                               cleanedContent[k] = 93 /\ k > first}
                last == CHOOSE k \in closing : \A x \in closing : k >= x
            IN  IF opening = {} THEN << >>
                ELSE IF closing = {} THEN << >>
                ELSE <<SubSeq(cleanedContent, first, last)>>
        \* for (let i = 0; i < jsonStr.length; i++) { .. }: lastCompleteIndex,
        \* as an index from 1 (0 for -1, 1 for 0)
        RECURSIVE scan(_, _, _, _, _, _)
        scan(jsonStr, i, depth, lastComplete, inString, escaped) ==
            IF i > Len(jsonStr) THEN lastComplete
            ELSE LET char == jsonStr[i]
                     down == depth - 1
                 IN  IF escaped
                     THEN scan(jsonStr, i + 1, depth, lastComplete, inString, FALSE)
                     ELSE IF char = 92 /\ inString
                     THEN scan(jsonStr, i + 1, depth, lastComplete, inString, TRUE)
                     ELSE IF char = 34
                     THEN scan(jsonStr, i + 1, depth, lastComplete, ~inString, FALSE)
                     ELSE IF inString
                     THEN scan(jsonStr, i + 1, depth, lastComplete, inString, FALSE)
                     ELSE IF char \in {91, 123}
                     THEN scan(jsonStr, i + 1, depth + 1, lastComplete, inString, FALSE)
                     ELSE IF char \in {93, 125}
                     THEN scan(jsonStr, i + 1, down,
                               IF down = 1 /\ char = 125 THEN i ELSE lastComplete,
                               inString, FALSE)
                     ELSE scan(jsonStr, i + 1, depth, lastComplete, inString, FALSE)
        \* try { JSON.parse(jsonStr) } catch { .. JSON.parse(fixedJson) .. }
        repair(jsonStr, lastCompleteIndex) ==
            IF lastCompleteIndex > 1
            THEN JSONparse(SubSeq(jsonStr, 1, lastCompleteIndex) \o <<93>>)
            ELSE <<FALSE>>
        try(parsed, fixed) ==
            IF parsed[1] THEN Returns(parsed[2][2])
            ELSE IF fixed[1] THEN Returns(fixed[2][2])
            ELSE Throws("Invalid JSON in response")
        \* if (!jsonMatch) { .. }
        found(jsonMatch, lowerContent) ==
            IF jsonMatch = << >>
            THEN IF \/ includes(lowerContent, <<110, 111, 32, 116, 114, 97, 110,
                                                115, 97, 99, 116, 105, 111, 110>>)
                    \/ includes(lowerContent, <<101, 109, 112, 116, 121>>)
                    \/ includes(lowerContent, <<91, 93>>)
                 THEN Returns(<< >>)
                 ELSE Throws("Could not parse transactions from response")
            ELSE try(JSONparse(jsonMatch[1]),
                     repair(jsonMatch[1], scan(jsonMatch[1], 1, 0, 0, FALSE, FALSE)))
    IN  IF responseContent = << >> THEN Throws("No response from OpenAI")
        ELSE found(match(closed(opened(responseContent),
                                trimEnd(opened(responseContent)))),
                   toLowerCase(responseContent))

\* ========================================= processJob around its loop
\* A response of the model with three transactions:
\* [{"m":"Al","a":"1"},{"m":"Bo","t":["x"]},{"m":"Cy"}]
FullResponse ==
    <<91, 123, 34, 109, 34, 58, 34, 65, 108, 34, 44, 34, 97, 34, 58, 34, 49,
      34, 125, 44, 123, 34, 109, 34, 58, 34, 66, 111, 34, 44, 34, 116, 34, 58,
      91, 34, 120, 34, 93, 125, 44, 123, 34, 109, 34, 58, 34, 67, 121, 34,
      125, 93>>

\* response.choices[0].message.content: the full response, the response cut
\* off after every number of characters (max_tokens), both inside a ```json
\* fence, and "No transactions found.", "garbage", an array without the comma
\* between its elements, an array that ends in "] x" inside an element.
Responses ==
    LET Cut(n) == SubSeq(FullResponse, 1, n)
        open == <<96, 96, 96, 106, 115, 111, 110, 10>>
        close == <<10, 96, 96, 96>>
    IN  {Cut(n) : n \in 0..Len(FullResponse)}
        \cup {open \o FullResponse \o close, open \o Cut(30)}
        \cup {<<78, 111, 32, 116, 114, 97, 110, 115, 97, 99, 116, 105, 111,
                110, 115, 32, 102, 111, 117, 110, 100, 46>>,
              <<103, 97, 114, 98, 97, 103, 101>>,
              <<91, 123, 34, 109, 34, 58, 34, 65, 34, 125, 32, 123, 34, 109,
                34, 58, 34, 66, 34, 125, 93>>,
              <<91, 123, 34, 109, 34, 58, 34, 65, 34, 125, 44, 123, 34, 109,
                34, 58, 34, 66, 34, 125, 44, 123, 34, 109, 34, 58, 34, 67, 34,
                93, 32, 120>>}

\* job.payload as the upload routes write it: frameKeys or frames (how many),
\* videoKey or video (whether there is one), or none of them.
Payloads ==
    LET Payload(k, vk, f, v) ==
            [frameKeys |-> k, videoKey |-> vk, frames |-> f, video |-> v]
    IN  {Payload(k, FALSE, 0, FALSE) : k \in {2, 13, 1001}}
        \cup {Payload(0, FALSE, f, FALSE) : f \in {2, 13}}
        \cup {Payload(0, TRUE, 0, FALSE), Payload(0, FALSE, 0, TRUE),
              Payload(0, FALSE, 0, FALSE)}

\* The job is claimed (status processing) and processJob is entered. calls
\* lists how many frames each call of the vision model carried; deleted is
\* the number of frame keys, and videoDeleted whether the video key, for which
\* a delete was sent.
JobInit ==
    /\ QueueInit
    /\ requests = 0
    /\ StoreInit
    /\ placesApiKey = TRUE
    /\ args = << >>
    /\ ret = << >>
    /\ retry = << >>
    /\ job \in {[at |-> "payload", payload |-> p, frames |-> 0, calls |-> << >>,
                 responseContent |-> NULL, rawTransactions |-> NULL,
                 added |-> 0, status |-> "processing", error |-> "",
                 i |-> 0, deleted |-> 0, videoDeleted |-> FALSE] :
                    p \in Payloads}

\* throw ..: control passes to the catch block of processJob.
Caught(message) == [job EXCEPT !.at = "catch", !.error = message]

\* if (payload.frameKeys && ..length > 0) { download } else if (payload.videoKey)
\* { download } else if (payload.frames ..) .. else if (payload.video) .. else
\* throw; a download (r2Client.send) goes through or throws.
ResolvePayload(ok) ==
    /\ job.at = "payload"
    /\ job' =
          IF job.payload.frameKeys > 0
          THEN IF ok THEN [job EXCEPT !.at = "frames", !.frames = job.payload.frameKeys]
               ELSE Caught("download")
          ELSE IF job.payload.videoKey
          THEN IF ok THEN [job EXCEPT !.at = "video"]
               ELSE Caught("Failed to download video from storage")
          ELSE IF job.payload.frames > 0
          THEN [job EXCEPT !.at = "frames", !.frames = job.payload.frames]
          ELSE IF job.payload.video THEN [job EXCEPT !.at = "video"]
          ELSE Caught("No frames, video, or videoUrl in payload")
    /\ UNCHANGED <<queueVars, requests, storeVars, pureVars, retry, blobs>>

\* rawTransactions = await extractTransactionsFromFrames(frames): one call of
\* the model with every frame; withRetry rejects, or the response is parsed.
ExtractFromFrames(ok, response) ==
    /\ job.at = "frames"
    /\ LET result == extractTransactionsFromFrames(response)
           called == [job EXCEPT !.calls = Append(@, job.frames)]
       IN  job' =
              IF ~ok THEN [called EXCEPT !.at = "catch", !.error = "withRetry"]
              ELSE IF result.threw
              THEN [called EXCEPT !.at = "catch", !.error = result.message,
                                  !.responseContent = Some(response)]
              ELSE [called EXCEPT !.at = "loop",
                                  !.responseContent = Some(response),
                                  !.rawTransactions = Some(result.value)]
    /\ UNCHANGED <<queueVars, requests, storeVars, pureVars, retry, blobs>>

\* rawTransactions = await extractTransactionsFromVideo(..): data.transactions
\* (here none or one), or an Error.
ExtractFromVideo(ok, count) ==
    /\ job.at = "video"
    /\ job' = IF ok
              THEN [job EXCEPT !.at = "loop",
                               !.rawTransactions =
                                   Some([k \in 1..count |-> <<"object", << >>>>])]
              ELSE Caught("Video extraction failed")
    /\ UNCHANGED <<queueVars, requests, storeVars, pureVars, retry, blobs>>

\* for (const t of rawTransactions) { .. }: skipped candidates have no date;
\* an insert may throw. Without candidates the body is never entered.
CandidateLoop(ok, skipped) ==
    /\ job.at = "loop"
    /\ skipped <= Len(Val(job.rawTransactions))
    /\ job' = IF ok \/ Val(job.rawTransactions) = << >>
              THEN [job EXCEPT !.at = "complete",
                               !.added = Len(Val(job.rawTransactions)) - skipped]
              ELSE Caught("insert")
    /\ UNCHANGED <<queueVars, requests, storeVars, pureVars, retry, blobs>>

\* UPDATE jobs SET status = 'completed', result = .. (the statement may throw)
FinishJob(ok) ==
    /\ job.at = "complete"
    /\ job' = IF ok THEN [job EXCEPT !.at = "deleteVideo", !.status = "completed"]
              ELSE Caught("update")
    /\ UNCHANGED <<queueVars, requests, storeVars, pureVars, retry, blobs>>

\* catch (error) { UPDATE jobs SET status = 'failed', error = $1 .. }: when
\* this statement throws, processJob rejects.
FailJob(ok) ==
    /\ job.at = "catch"
    /\ job' = IF ok THEN [job EXCEPT !.at = "deleteVideo", !.status = "failed"]
              ELSE [job EXCEPT !.at = "rejected"]
    /\ UNCHANGED <<queueVars, requests, storeVars, pureVars, retry, blobs>>

\* if (payload.videoKey) { try { DeleteObjectCommand } catch { warn } }
DeleteVideo(ok) ==
    /\ job.at = "deleteVideo"
    /\ job' = [job EXCEPT !.at = "deleteFrames",
                          !.videoDeleted = job.payload.videoKey]
    /\ UNCHANGED <<queueVars, requests, storeVars, pureVars, retry, blobs>>

\* try { for (let i = 0; i < frameKeys.length; i += 1000) { DeleteObjectsCommand
\* of frameKeys.slice(i, i + 1000) } } catch { warn }: one batch per step.
DeleteFrames(ok) ==
    /\ job.at = "deleteFrames"
    /\ job' =
          IF job.i >= job.payload.frameKeys THEN [job EXCEPT !.at = "returned"]
          ELSE LET batch == Min(1000, job.payload.frameKeys - job.i)
               IN  IF ok THEN [job EXCEPT !.deleted = @ + batch, !.i = @ + 1000]
                   ELSE [job EXCEPT !.deleted = @ + batch, !.at = "returned"]
    /\ UNCHANGED <<queueVars, requests, storeVars, pureVars, retry, blobs>>

JobNext ==
    \/ \E ok \in BOOLEAN : ResolvePayload(ok)
    \/ \E ok \in BOOLEAN : \E response \in Responses : ExtractFromFrames(ok, response)
    \/ \E ok \in BOOLEAN : \E count \in 0..1 : ExtractFromVideo(ok, count)
    \/ \E ok \in BOOLEAN : \E skipped \in 0..1 : CandidateLoop(ok, skipped)
    \/ \E ok \in BOOLEAN : FinishJob(ok)
    \/ \E ok \in BOOLEAN : FailJob(ok)
    \/ \E ok \in BOOLEAN : DeleteVideo(ok)
    \/ \E ok \in BOOLEAN : DeleteFrames(ok)

JobSpec == JobInit /\ [][JobNext]_vars

\* ============================================ the job status routes
\* The jobs tables of the model: job 1 and job 2, each there or not, of
\* either owner, pending, completed with a result or failed with an error.
JobTables ==
    LET JobRows(id) ==
            {[id |-> id, user_id |-> u, status |-> s,
              result |-> IF s = "completed" THEN Some("summary") ELSE NULL,
              error |-> IF s = "failed" THEN Some("message") ELSE NULL] :
                u \in {OwnerA, OwnerB}, s \in {"pending", "completed", "failed"}}
    IN  {a \cup b : a \in {{}} \cup {{r} : r \in JobRows(1)},
                    b \in {{}} \cup {{r} : r \in JobRows(2)}}

\* Mutant: the status query without its user_id condition.
GETjobAnyOwner(table, userId, id, ok) ==
    LET rows == {r \in table : r.id = id}
    IN  IF userId = NULL THEN [status |-> 401, error |-> "Unauthorized", job |-> NULL]
        ELSE IF ~ok THEN [status |-> 500, error |-> "message", job |-> NULL]
        ELSE IF rows = {} THEN [status |-> 404, error |-> "Job not found", job |-> NULL]
        ELSE LET row == CHOOSE r \in rows : TRUE
             IN  [status |-> 200, error |-> "",
                  job |-> Some([jobId |-> row.id, status |-> row.status,
                                result |-> row.result, error |-> row.error])]

\* GET /api/jobs/[id] for the signed-in user userId (<< >>: none); the query
\* goes through (ok) or throws.
GETjob(table, userId, id, ok) ==
    LET rows == {r \in table : r.id = id /\ r.user_id = userId}
    IN  IF userId = NULL THEN [status |-> 401, error |-> "Unauthorized", job |-> NULL]
        ELSE IF ~ok THEN [status |-> 500, error |-> "message", job |-> NULL]
        ELSE IF rows = {} THEN [status |-> 404, error |-> "Job not found", job |-> NULL]
        ELSE LET row == CHOOSE r \in rows : TRUE
             IN  [status |-> 200, error |-> "",
                  job |-> Some([jobId |-> row.id, status |-> row.status,
                                result |-> row.result, error |-> row.error])]

\* GET of the job list for the signed-in user userId: the rows and the counts.
GETjobs(table, userId, ok) ==
    LET rows == {[id |-> r.id, status |-> r.status, error |-> r.error] :
                    r \in {x \in table : x.user_id = userId}}
        count(s) == Cardinality({r \in rows : r.status = s})
    IN  IF ~ok THEN [status |-> 500, error |-> "message", job |-> NULL]
        ELSE IF userId = NULL
        THEN [status |-> 401, error |-> "Unauthorized", job |-> NULL]
        ELSE [status |-> 200, error |-> "",
              job |-> Some([jobs |-> rows, pending |-> count("pending"),
                            processing |-> count("processing"),
                            completed |-> count("completed"),
                            failed |-> count("failed")])]

\* A requester and two jobs tables that hold the same jobs of the requester.
StatusInit ==
    /\ QueueInit
    /\ requests = 0
    /\ StoreInit
    /\ placesApiKey = TRUE
    /\ args \in {a \in {OwnerA, OwnerB, NULL} \X JobTables \X JobTables :
                    \A r \in a[2] \cup a[3] :
                        r.user_id = a[1] => r \in a[2] /\ r \in a[3]}
    /\ ret = << >>
    /\ retry = << >>
    /\ job = << >>

\* The requester asks for the status of job id, over either table.
StatusGet(id, ok) ==
    /\ ret = << >>
    /\ ret' = [route |-> "job", id |-> id, ok |-> ok,
               responses |-> <<GETjob(args[2], args[1], id, ok),
                               GETjob(args[3], args[1], id, ok)>>]
    /\ UNCHANGED <<queueVars, requests, storeVars, args, callVars, blobs>>

\* The requester asks for the list of jobs, over either table.
StatusList(ok) ==
    /\ ret = << >>
    /\ ret' = [route |-> "jobs", id |-> 0, ok |-> ok,
               responses |-> <<GETjobs(args[2], args[1], ok),
                               GETjobs(args[3], args[1], ok)>>]
    /\ UNCHANGED <<queueVars, requests, storeVars, args, callVars, blobs>>

StatusNext ==
    \/ \E id \in 1..3 : \E ok \in BOOLEAN : StatusGet(id, ok)
    \/ \E ok \in BOOLEAN : StatusList(ok)

StatusSpec == StatusInit /\ [][StatusNext]_vars

\* ===================== the single-flight worker (app/api/worker/route.ts)
\* upload: INSERT INTO jobs (..) VALUES (..); created_at defaults to NOW().
\* Of a row this variant reads status and created_at; claimed_at is kept
\* next to them to tell when the row last went to processing (no statement
\* reads it).
FlightEnqueue ==
    /\ requests < MaxRequests
    /\ requests' = requests + 1
    /\ jobs' = Append(jobs, [status |-> "pending", created_at |-> now,
                             claimed_at |-> NULL])
    /\ UNCHANGED <<now, pc, sel, slots, proc>>
    /\ UNCHANGED <<storeVars, pureVars, callVars, blobs>>

\* SET status = 'processing' (of a row that is not processing yet: a claim)
FlightClaimedRow(r) ==
    [r EXCEPT !.status = "processing",
              !.claimed_at = IF r.status = "processing" THEN @ ELSE Some(now)]

\* SELECT id, created_at FROM jobs WHERE status = 'processing' LIMIT 1, any
\* of the rows; ageMinutes = (now - createdAt) / 1000 / 60; below 5 the
\* invocation returns "throttled".
ThrottleCheck(w, j) ==
    /\ pc[w] = "idle"
    /\ requests < MaxRequests
    /\ requests' = requests + 1
    /\ LET processing == {k \in JobIds : jobs[k].status = "processing"}
       IN  IF processing = {}
           THEN /\ j = 0
                /\ pc' = [pc EXCEPT ![w] = "claimSelect"]
                /\ sel' = sel
           ELSE /\ j \in processing
                /\ IF now - jobs[j].created_at < JOB_TIMEOUT_MINUTES
                   THEN pc' = pc /\ sel' = sel
                   ELSE /\ pc' = [pc EXCEPT ![w] = "reset"]
                        /\ sel' = [sel EXCEPT ![w] = {j}]
    /\ UNCHANGED <<jobs, now, slots, proc>>
    /\ UNCHANGED <<storeVars, pureVars, callVars, blobs>>

\* UPDATE jobs SET status = 'pending' WHERE id = $1
ResetStuck(w) ==
    /\ pc[w] = "reset"
    /\ jobs' = [j \in JobIds |->
                   IF j \in sel[w] THEN [jobs[j] EXCEPT !.status = "pending"]
                   ELSE jobs[j]]
    /\ sel' = [sel EXCEPT ![w] = {}]
    /\ pc' = [pc EXCEPT ![w] = "claimSelect"]
    /\ UNCHANGED <<now, slots, proc, requests>>
    /\ UNCHANGED <<storeVars, pureVars, callVars, blobs>>

\* The claim statement takes its snapshot:
\* SELECT id FROM jobs WHERE status = 'pending' ORDER BY created_at ASC LIMIT 1
FlightClaimSelect(w) ==
    /\ pc[w] = "claimSelect"
    /\ sel' = [sel EXCEPT ![w] = ClaimCandidates(1)]
    /\ pc' = [pc EXCEPT ![w] = "claim"]
    /\ UNCHANGED <<jobs, now, slots, proc, requests>>
    /\ UNCHANGED <<storeVars, pureVars, callVars, blobs>>

\* The claim statement writes the selected row and returns it; no row: the
\* invocation returns "No pending jobs".
FlightClaimUpdate(w) ==
    /\ pc[w] = "claim"
    /\ jobs' = [j \in JobIds |->
                   IF j \in sel[w] THEN FlightClaimedRow(jobs[j]) ELSE jobs[j]]
    /\ proc' = [proc EXCEPT ![w] = [j \in sel[w] |-> "start"]]
    /\ sel' = [sel EXCEPT ![w] = {}]
    /\ pc' = [pc EXCEPT ![w] = IF sel[w] = {} THEN "idle" ELSE "process"]
    /\ UNCHANGED <<now, slots, requests>>
    /\ UNCHANGED <<storeVars, pureVars, callVars, blobs>>

\* processJob: UPDATE jobs SET status = 'processing' WHERE id = $1
FlightStart(w, j) ==
    /\ pc[w] = "process"
    /\ j \in DOMAIN proc[w]
    /\ proc[w][j] = "start"
    /\ jobs' = [jobs EXCEPT ![j] = FlightClaimedRow(@)]
    /\ proc' = [proc EXCEPT ![w][j] = "extract"]
    /\ UNCHANGED <<now, pc, sel, slots, requests>>
    /\ UNCHANGED <<storeVars, pureVars, callVars, blobs>>

\* processJob: UPDATE jobs SET status = 'completed' .. or, in the catch
\* block, status = 'failed'; then the invocation returns.
FlightFinish(w, j, ok) ==
    /\ pc[w] = "process"
    /\ j \in DOMAIN proc[w]
    /\ proc[w][j] = "extract"
    /\ jobs' = [jobs EXCEPT ![j].status = IF ok THEN "completed" ELSE "failed"]
    /\ proc' = [proc EXCEPT ![w] = << >>]
    /\ pc' = [pc EXCEPT ![w] = "idle"]
    /\ UNCHANGED <<now, sel, slots, requests>>
    /\ UNCHANGED <<storeVars, pureVars, callVars, blobs>>

FlightNext ==
    \/ FlightEnqueue
    \/ Tick
    \/ \E w \in Workers : \E j \in {0} \cup JobIds : ThrottleCheck(w, j)
    \/ \E w \in Workers : ResetStuck(w)
    \/ \E w \in Workers : FlightClaimSelect(w)
    \/ \E w \in Workers : FlightClaimUpdate(w)
    \/ \E w \in Workers : \E j \in JobIds : FlightStart(w, j)
    \/ \E w \in Workers : \E j \in JobIds : \E ok \in BOOLEAN : FlightFinish(w, j, ok)

FlightSpec == Init /\ [][FlightNext]_vars

\* ======================================== the blobs of the queued jobs
\* The keys the upload route hands out: uploads/${userId}/${filename}-${fileSize}
BlobKeys == {"uploads/u/a.mp4-1", "uploads/u/b.mp4-2"}

\* The upload: the object is put under its key, or is found there already
\* (deduplicated: true), and the job is inserted with payload {videoKey: key}.
BlobEnqueue(key) ==
    /\ requests < MaxRequests
    /\ Len(jobs) < MaxBlobJobs
    /\ requests' = requests + 1
    /\ blobs' = blobs \cup {key}
    /\ jobs' = Append(jobs, [payload |-> key] @@ NewRow)
    /\ UNCHANGED <<now, pc, sel, slots, proc>>
    /\ UNCHANGED <<storeVars, pureVars, callVars>>

\* processJob: r2Client.send(new GetObjectCommand({Key: payload.videoKey}));
\* without the object it throws and the catch block writes the job failed
\* (its delete finds nothing).
BlobDownload(w, j) ==
    /\ pc[w] = "process"
    /\ j \in DOMAIN proc[w]
    /\ proc[w][j] = "extract"
    /\ IF jobs[j].payload \in blobs
       THEN /\ proc' = [proc EXCEPT ![w][j] = "loaded"]
            /\ jobs' = jobs
       ELSE /\ proc' = [proc EXCEPT ![w][j] = "done"]
            /\ jobs' = [jobs EXCEPT ![j] = FailedRow(@)]
    /\ UNCHANGED <<now, pc, sel, slots, requests>>
    /\ UNCHANGED <<storeVars, pureVars, callVars, blobs>>

\* processJob: extraction and inserts go through (ok) or throw; after the
\* update of the row the object is deleted (DeleteObjectCommand) either way.
BlobFinish(w, j, ok) ==
    /\ pc[w] = "process"
    /\ j \in DOMAIN proc[w]
    /\ proc[w][j] = "loaded"
    /\ jobs' = [jobs EXCEPT ![j] = IF ok THEN CompletedRow(@) ELSE FailedRow(@)]
    /\ blobs' = blobs \ {jobs[j].payload}
    /\ proc' = [proc EXCEPT ![w][j] = "done"]
    /\ UNCHANGED <<now, pc, sel, slots, requests>>
    /\ UNCHANGED <<storeVars, pureVars, callVars>>

BlobNext ==
    \/ \E key \in BlobKeys : BlobEnqueue(key)
    \/ Tick
    \/ \E w \in Workers : RequeueSelect(w)
    \/ \E w \in Workers : RequeueUpdate(w)
    \/ \E w \in Workers : RecoverStuck(w)
    \/ \E w \in Workers : CountProcessing(w)
    \/ \E w \in Workers : ClaimSelect(w)
    \/ \E w \in Workers : ClaimUpdate(w)
    \/ \E w \in Workers : \E j \in JobIds : ProcStart(w, j)
    \/ \E w \in Workers : \E j \in JobIds : BlobDownload(w, j)
    \/ \E w \in Workers : \E j \in JobIds : \E ok \in BOOLEAN : BlobFinish(w, j, ok)
    \/ \E w \in Workers : Return(w)

BlobSpec == Init /\ [][BlobNext]_vars

\* ============================== the worker without a bound on time
\* The statements read the clock only in started_at < NOW() - 5 minutes, so
\* instead of advancing NOW() the time stamps of the rows are moved back by
\* one tick, down to one tick before now: the invocations and the passing of
\* time are unbounded and the state space stays finite.
LoopEnqueue ==
    /\ Len(jobs) < MaxLoopJobs
    /\ jobs' = Append(jobs, NewRow)
    /\ UNCHANGED <<now, pc, sel, slots, proc, requests>>
    /\ UNCHANGED <<storeVars, pureVars, callVars, blobs>>

\* Time passes by one tick.
AgeTick ==
    /\ LET Aged(t) == IF t = NULL THEN NULL ELSE Some(now - TickMinutes)
       IN  jobs' = [j \in JobIds |->
                       [jobs[j] EXCEPT !.started_at = Aged(@),
                                       !.completed_at = Aged(@)]]
    /\ jobs' # jobs
    /\ UNCHANGED <<now, pc, sel, slots, proc, requests>>
    /\ UNCHANGED <<storeVars, pureVars, callVars, blobs>>

\* handleWorker is invoked: its auto-retry statement takes its snapshot.
LoopInvoke(w) ==
    /\ pc[w] = "idle"
    /\ sel' = [sel EXCEPT ![w] = RetryCandidates]
    /\ pc' = [pc EXCEPT ![w] = "requeue"]
    /\ UNCHANGED <<jobs, now, slots, proc, requests>>
    /\ UNCHANGED <<storeVars, pureVars, callVars, blobs>>

\* The steps of invocation w after its first, and of its processJobs.
LoopStep(w) ==
    \/ RequeueUpdate(w)
    \/ RecoverStuck(w)
    \/ CountProcessing(w)
    \/ ClaimSelect(w)
    \/ ClaimUpdate(w)
    \/ \E j \in JobIds : ProcStart(w, j)
    \/ \E j \in JobIds : ProcComplete(w, j)
    \/ \E j \in JobIds : ProcFail(w, j)
    \/ Return(w)

LoopNext ==
    \/ LoopEnqueue
    \/ AgeTick
    \/ \E w \in Workers : LoopInvoke(w)
    \/ \E w \in Workers : LoopStep(w)

LoopSpec == Init /\ [][LoopNext]_vars

\* handleWorker keeps being invoked, no invocation crashes and every
\* processJob comes to its end.
LoopLiveSpec ==
    LoopSpec /\ \A w \in Workers : WF_vars(LoopInvoke(w)) /\ WF_vars(LoopStep(w))

\* ================================ the ingestion paths and the fingerprint
\* generateTransactionId(userId, t.merchant_name, parsedDate, t.amount_spent):
\* the call of process-batch passes no fifth argument, so rewards is
\* undefined and `${rewards}` is "undefined".
generateTransactionIdOmitted(userId, merchantName, date, amount) ==
    LET data == userId \o <<58>> \o trim(toLowerCase(merchantName)) \o <<58>>
                \o date \o <<58>> \o NumberToString(amount) \o <<58>>
                \o <<117, 110, 100, 101, 102, 105, 110, 101, 100>>
        hashHex == padStart(toString16(MathAbs(HashLoop(<<0, 0>>, data))), 8, 48)
    IN  hashHex \o <<45>> \o slice(base64(data), 20)

\* parseFloat(v) of a number, null or undefined: String(v) is parsed, its
\* leading decimal digits give the number; without a digit the result is
\* NaN (NULL here).
parseFloat(v) ==
    LET RECURSIVE Digits(_, _)
        Digits(s, n) ==
            IF s = << >> \/ s[1] \notin 48..57 THEN n
            ELSE Digits(Tail(s), n * 10 + (s[1] - 48))
        text == IF v = NULL THEN <<110, 117, 108, 108>> ELSE NumberToString(Val(v))
    IN  IF text[1] \in 48..57 THEN Some(Digits(text, 0)) ELSE NULL

\* v || 0 for a number, null, undefined or NaN.
OrZero(v) == IF v = NULL \/ Val(v) = 0 THEN 0 ELSE Val(v)

\* One transaction as a path receives it: the owner, the merchant name, the
\* date as displayed ("1/5/2024", "2024-01-05", "not a date"), the amount,
\* and the reward (a number, or null when the screen shows none).
PathInputs ==
    [userId : {OwnerA, OwnerB},
     merchant_name : {MerchantBP, MerchantBpSpaced, MerchantZed},
     transaction_date : {<<49, 47, 53, 47, 50, 48, 50, 52>>,
                         <<50, 48, 50, 52, 45, 48, 49, 45, 48, 53>>,
                         <<110, 111, 116, 32, 97, 32, 100, 97, 116, 101>>},
     amount_spent : {Some(12), Some(120)},
     bitcoin_rewards : {NULL, Some(0), Some(3)}]

\* The same transaction is about to be ingested twice, through any two of
\* the paths; the store is empty.
PathInit ==
    /\ QueueInit
    /\ requests = 0
    /\ StoreInit
    /\ placesApiKey = TRUE
    /\ args \in PathInputs
                \X {"worker", "process-frames", "process-batch", "manual"}
                \X {"worker", "process-frames", "process-batch", "manual"}
    /\ ret = << >>
    /\ retry = << >>
    /\ job = << >>

\* INSERT INTO transactions (id, ..) VALUES (..) ON CONFLICT (id) DO NOTHING
\* of the path that is next, for a candidate whose category has been
\* resolved (the category is no part of the id): a null reward violates
\* NOT NULL and the error is caught; ret records the id, or null when the
\* date was not normalized and no id was computed.
Ingest(path, id, rewards) ==
    /\ Len(ret) < 2
    /\ args[Len(ret) + 2] = path
    /\ LET t == args[1]
           formattedDate == parseTransactionDate(t.transaction_date)
           row == [user_id |-> t.userId, merchant_name |-> t.merchant_name,
                   transaction_date |-> Val(formattedDate),
                   amount_spent |-> Val(t.amount_spent),
                   bitcoin_rewards |-> Val(rewards), category |-> NULL]
       IN  IF formattedDate = NULL
           THEN /\ ret' = Append(ret, NULL)
                /\ UNCHANGED transactions
           ELSE /\ ret' = Append(ret, Some(id))
                /\ transactions' =
                       IF rewards = NULL \/ id \in DOMAIN transactions
                       THEN transactions
                       ELSE [k \in DOMAIN transactions \cup {id} |->
                                IF k = id THEN row ELSE transactions[k]]
    /\ UNCHANGED <<queueVars, requests, user_merchant_categories,
                   merchant_categories, run, placesApiKey, args, callVars, blobs>>

\* processJob (the worker): t.bitcoin_rewards || 0 in the id and in the row.
IngestWorker ==
    LET t == args[1]
    IN  Ingest("worker",
               generateTransactionId(t.userId, t.merchant_name,
                   Val(parseTransactionDate(t.transaction_date)),
                   Val(t.amount_spent), OrZero(t.bitcoin_rewards)),
               Some(OrZero(t.bitcoin_rewards)))

\* POST /api/process-frames: the same expressions as the worker.
IngestFrames ==
    LET t == args[1]
    IN  Ingest("process-frames",
               generateTransactionId(t.userId, t.merchant_name,
                   Val(parseTransactionDate(t.transaction_date)),
                   Val(t.amount_spent), OrZero(t.bitcoin_rewards)),
               Some(OrZero(t.bitcoin_rewards)))

\* POST /api/process-batch: four arguments for the id, t.bitcoin_rewards as
\* it is in the row.
IngestBatch ==
    LET t == args[1]
    IN  Ingest("process-batch",
               generateTransactionIdOmitted(t.userId, t.merchant_name,
                   Val(parseTransactionDate(t.transaction_date)),
                   Val(t.amount_spent)),
               t.bitcoin_rewards)

\* POST of the manual add: parseFloat(amount_spent) and
\* parseFloat(bitcoin_rewards) || 0 in the id and in the row.
IngestManual ==
    LET t == args[1]
    IN  Ingest("manual",
               generateTransactionId(t.userId, t.merchant_name,
                   Val(parseTransactionDate(t.transaction_date)),
                   Val(parseFloat(t.amount_spent)),
                   OrZero(parseFloat(t.bitcoin_rewards))),
               Some(OrZero(parseFloat(t.bitcoin_rewards))))

PathNext == IngestWorker \/ IngestFrames \/ IngestBatch \/ IngestManual

PathSpec == PathInit /\ [][PathNext]_vars

\* ================================================ the per-owner overrides
\* DELETE FROM user_merchant_categories
\* WHERE user_id = $1 AND LOWER(merchant_name) = LOWER($2)
deleteUserMerchantCategory(userId, merchantName) ==
    {r \in user_merchant_categories :
        ~(/\ r.user_id = userId
          /\ toLowerCase(r.merchant_name) = toLowerCase(merchantName))}

\* A call of setUserMerchantCategory, with the merchant name as a transaction
\* of the owner spells it ("BP", "bp", "Zed").
SetOverride(userId, merchantName, category) ==
    /\ user_merchant_categories' =
           setUserMerchantCategory(userId, merchantName, category, "manual")
    /\ UNCHANGED <<queueVars, requests, transactions, merchant_categories, run,
                   placesApiKey, pureVars, callVars, blobs>>

\* A call of deleteUserMerchantCategory.
DeleteOverride(userId, merchantName) ==
    /\ user_merchant_categories' = deleteUserMerchantCategory(userId, merchantName)
    /\ UNCHANGED <<queueVars, requests, transactions, merchant_categories, run,
                   placesApiKey, pureVars, callVars, blobs>>

OverrideNext ==
    \/ \E userId \in {OwnerA, OwnerB} :
          \E merchantName \in {MerchantBP, MerchantBp, MerchantZed} :
              \E category \in PutCategories :
                  SetOverride(userId, merchantName, category)
    \/ \E userId \in {OwnerA, OwnerB} :
          \E merchantName \in {MerchantBP, MerchantBp, MerchantZed} :
              DeleteOverride(userId, merchantName)

OverrideSpec == StoreStart /\ [][OverrideNext]_vars

\* ------------------------------------------------------------------ claims
Terminal == {"completed", "failed"}

\* The step in which invocation w's claim statement writes and returns.
ClaimReturns(w) == pc[w] = "claim" /\ pc'[w] # "claim"

\* The step in which invocation w's auto-retry statement takes its snapshot.
RequeueSelects(w) == pc[w] = "idle" /\ pc'[w] = "requeue"

\* The step in which invocation w's auto-retry statement writes.
RequeueWrites(w) == pc[w] = "requeue" /\ pc'[w] = "recover"

\* The step in which invocation w's stuck-job statement runs.
RecoverRuns(w) == pc[w] = "recover" /\ pc'[w] = "count"

\* C1: claim exclusivity. Every job a claim statement returns is one that
\* this statement itself moved from pending to processing, so a job that a
\* concurrent claim statement has already taken is never returned again.
C1_ClaimExclusive ==
    [][\A w \in Workers : ClaimReturns(w) =>
          \A j \in DOMAIN proc'[w] : jobs[j].status = "pending"]_vars

\* C2: at every moment each job has at most one in-flight processJob.
C2_OneHolder ==
    \A j \in JobIds : Cardinality({w \in Workers : j \in Running(w)}) <= 1

\* C3: back-pressure. The number of jobs in status processing never exceeds
\* MAX_CONCURRENT_JOBS.
C3_BackPressure == ProcessingCount <= MAX_CONCURRENT_JOBS

\* C4: every job's retry_count is at most the cap.
C4_RetryCap == \A j \in JobIds : jobs[j].retry_count <= MAX_RETRIES

\* C5: every status change is pending->processing, processing->completed,
\* processing->failed, processing->pending or failed->pending.
AllowedTransitions ==
    {<<"pending", "processing">>, <<"processing", "completed">>,
     <<"processing", "failed">>, <<"processing", "pending">>,
     <<"failed", "pending">>}

C5_Transitions ==
    [][\A j \in JobIds :
          jobs'[j].status # jobs[j].status =>
              <<jobs[j].status, jobs'[j].status>> \in AllowedTransitions]_vars

\* C6: stuck-job recovery. The recoverStuck step sets every processing job
\* whose started_at is more than JOB_TIMEOUT_MINUTES old back to pending,
\* changing nothing else of it, so that the claim sub-select sees it; every
\* other job, a processing job within the threshold included, is unchanged.
C6_StuckRecovery ==
    [][\A w \in Workers : RecoverRuns(w) =>
          \A j \in JobIds :
              IF /\ jobs[j].status = "processing"
                 /\ jobs[j].started_at # NULL
                 /\ Val(jobs[j].started_at) < now - JOB_TIMEOUT_MINUTES
              THEN /\ jobs'[j] = [jobs[j] EXCEPT !.status = "pending"]
                   /\ j \in PendingJobs'
              ELSE jobs'[j] = jobs[j]]_vars

\* C6 witness: an invocation has just run recoverStuck; a job never retried
\* and never failed is pending with a started_at older than the threshold
\* (it was recovered), next to a processing job within the threshold.
C6_Witness ==
    \E w \in Workers : \E j, k \in JobIds :
        /\ pc[w] = "count"
        /\ jobs[j].status = "pending"
        /\ jobs[j].started_at # NULL
        /\ Val(jobs[j].started_at) < now - JOB_TIMEOUT_MINUTES
        /\ jobs[j].retry_count = 0
        /\ jobs[j].error = NULL
        /\ jobs[k].status = "processing"
        /\ Val(jobs[k].started_at) >= now - JOB_TIMEOUT_MINUTES

\* C7: one execution of requeueFailed picks the oldest failed jobs with
\* retry_count below the cap, at most REQUEUE_LIMIT of them; every job it
\* writes is failed with retry_count below the cap and becomes pending with
\* retry_count one higher; every other job is unchanged.
C7_RequeueFailed ==
    [][\A w \in Workers :
          LET eligible == {j \in JobIds : jobs[j].status = "failed"
                                          /\ jobs[j].retry_count < MAX_RETRIES}
              moved == {j \in JobIds : jobs'[j] # jobs[j]}
          IN  /\ RequeueSelects(w) =>
                    /\ sel'[w] \subseteq eligible
                    /\ Cardinality(sel'[w]) = Min(REQUEUE_LIMIT, Cardinality(eligible))
                    /\ \A j \in sel'[w] : \A k \in eligible \ sel'[w] : j < k
              /\ RequeueWrites(w) =>
                    /\ Cardinality(moved) <= REQUEUE_LIMIT
                    /\ moved \subseteq eligible
                    /\ \A j \in moved :
                          jobs'[j] = [jobs[j] EXCEPT !.status = "pending",
                                                     !.retry_count = @ + 1]]_vars

\* C8 as stated: completed_at is written at most once, by the transition
\* into the job's final terminal status; so a job that carries a
\* completed_at is in a terminal status.
C8_CompletedAtFinal ==
    \A j \in JobIds : jobs[j].completed_at # NULL => jobs[j].status \in Terminal

\* C8 as amended: completed_at is written by every terminal update of
\* processJob, which sets it to NOW() together with status completed or
\* failed, and by no other step.
C8_CompletedAtByTerminalUpdate ==
    [][\A j \in JobIds :
          LET finishes == \E w \in Workers :
                  /\ j \in DOMAIN proc[w]
                  /\ proc[w][j] = "extract"
                  /\ j \in DOMAIN proc'[w]
                  /\ proc'[w][j] = "done"
          IN  IF finishes
              THEN /\ jobs'[j].completed_at = Some(now)
                   /\ jobs'[j].status \in Terminal
              ELSE jobs'[j].completed_at = jobs[j].completed_at]_vars

\* C8 witness: a job that failed and was retried has completed; its
\* completed_at has been written by both terminal transitions.
C8_Witness ==
    \E j \in JobIds :
        /\ jobs[j].status = "completed"
        /\ jobs[j].error # NULL
        /\ jobs[j].retry_count > 0
        /\ jobs[j].completed_at = Some(now)

\* C9: a job's error is non-null only if its status is failed.
C9_ErrorOnlyWhenFailed ==
    \A j \in JobIds : jobs[j].error # NULL => jobs[j].status = "failed"

\* C10: a job's result is non-null only if its status is completed.
C10_ResultOnlyWhenCompleted ==
    \A j \in JobIds : jobs[j].result # NULL => jobs[j].status = "completed"

\* ------------------------------------------------ claims on the fingerprint
\* a and b agree in every position up to the case of a letter.
EqualIgnoringCase(a, b) ==
    /\ Len(a) = Len(b)
    /\ \A k \in 1..Len(a) :
          (IF a[k] \in 97..122 THEN a[k] - 32 ELSE a[k])
              = (IF b[k] \in 97..122 THEN b[k] - 32 ELSE b[k])

\* s without its leading and trailing white space.
Core(s) ==
    LET inked == {k \in 1..Len(s) : s[k] \notin WhiteSpace}
    IN  IF inked = {} THEN << >>
        ELSE SubSeq(s, CHOOSE k \in inked : \A x \in inked : k <= x,
                       CHOOSE k \in inked : \A x \in inked : k >= x)

\* The two calls agree on every argument but the merchant name.
SameButMerchant ==
    /\ args[1].userId = args[2].userId
    /\ args[1].date = args[2].date
    /\ args[1].amount = args[2].amount
    /\ args[1].rewards = args[2].rewards

\* C13: two calls of generateTransactionId whose owner, date, amount and
\* reward are equal and whose merchant names differ only in letter case or in
\* leading or trailing white space return the identical fingerprint (equal
\* arguments included: the function is deterministic).
C13_FingerprintNormalizes ==
    (ret # << >> /\ SameButMerchant
        /\ EqualIgnoringCase(Core(args[1].merchantName), Core(args[2].merchantName)))
    => ret[1] = ret[2]

\* C13 witness: "BP" and " Bp " of one owner, date, amount and reward have
\* been fingerprinted, and alike.
C13_Witness ==
    /\ ret # << >>
    /\ SameButMerchant
    /\ args[1].merchantName = MerchantBP
    /\ args[2].merchantName = MerchantBpSpaced
    /\ ret[1] = ret[2]

\* C14: for two distinct owners and the same merchant, date, amount and
\* reward, generateTransactionId returns different ids.
C14_OwnersNeverCollide ==
    (/\ ret # << >>
     /\ args[1].userId # args[2].userId
     /\ args[1].merchantName = args[2].merchantName
     /\ args[1].date = args[2].date
     /\ args[1].amount = args[2].amount
     /\ args[1].rewards = args[2].rewards)
    => ret[1] # ret[2]

\* ------------------------------------------- claims on parseTransactionDate
\* The zero-padded YYYY-MM-DD string of a day.
Canonical(day) ==
    NumberToString(day[1])
    \o <<45, 48 + (day[2] \div 10), 48 + (day[2] % 10)>>
    \o <<45, 48 + (day[3] \div 10), 48 + (day[3] % 10)>>

Inserts(w) == run[w].at = "insert" /\ run'[w] # run[w]

\* The candidates of run r that have a date parseTransactionDate takes.
Parsed(r) ==
    {k \in 1..Len(r.rawTransactions) :
        parseTransactionDate(r.rawTransactions[k].transaction_date) # NULL}

\* The row is a row for the candidate run r is at: same owner, merchant (up
\* to case and outer white space), normalized date, amount and reward.
IsRowFor(row, r) ==
    /\ row.user_id = r.user_id
    /\ trim(toLowerCase(row.merchant_name)) = trim(toLowerCase(T(r).merchant_name))
    /\ row.transaction_date = Val(parseTransactionDate(T(r).transaction_date))
    /\ row.amount_spent = T(r).amount_spent
    /\ row.bitcoin_rewards = T(r).bitcoin_rewards

\* C11: idempotent storage. Whenever a candidate with a calendar date is
\* processed, by whichever job and however often, the store afterwards
\* holds exactly one row for it, and no error is raised: the catch of the
\* insert is not entered and the job goes on.
C11_IdempotentStorage ==
    [][\A w \in Workers :
          (Inserts(w) /\ DateAccepted(TransactionRow(run[w]).transaction_date)) =>
              /\ Cardinality({k \in DOMAIN transactions' :
                                 IsRowFor(transactions'[k], run[w])}) = 1
              /\ run'[w].duplicates = run[w].duplicates
              /\ run'[w].status = "processing"]_vars

\* C12: duplicate accounting. The result of a completed job reports as added
\* the number of rows its inserts have inserted, and as duplicates the number
\* of its inserts that found the fingerprint in the store.
C12_DuplicateAccounting ==
    \A w \in Workers :
        run[w].status = "completed" =>
            /\ run[w].added = run[w].inserted
            /\ run[w].duplicates = Cardinality(Parsed(run[w])) - run[w].inserted

\* The date of candidate t has no canonical form: it matches none of the
\* patterns, or what the patterns take from it is no day of the calendar.
NotNormalizable(t) ==
    LET formattedDate == parseTransactionDate(t.transaction_date)
    IN  formattedDate = NULL \/ ~DateAccepted(Val(formattedDate))

\* The run of worker w is at a candidate and takes a step.
AtCandidate(w) ==
    /\ run[w].status = "processing"
    /\ run[w].i <= Len(run[w].rawTransactions)
    /\ run'[w] # run[w]

\* C16: a candidate whose date cannot be normalized is dropped without being
\* inserted and without failing the job: no step of the job at such a
\* candidate changes the stored transactions or the counts or fails the job,
\* and the loop goes on with the next candidate of the extraction.
C16_UnparseableDropped ==
    [][\A w \in Workers :
          (AtCandidate(w) /\ NotNormalizable(T(run[w]))) =>
              /\ transactions' = transactions
              /\ run'[w].status = "processing"
              /\ run'[w].i \in {run[w].i, run[w].i + 1}
              /\ run'[w].rawTransactions = run[w].rawTransactions
              /\ run'[w].added = run[w].added
              /\ run'[w].duplicates = run[w].duplicates]_vars

\* The per-owner overrides of owner userId that match merchantName up to
\* letter case.
Overrides(userId, merchantName) ==
    {r \in user_merchant_categories :
        /\ r.user_id = userId
        /\ Len(r.merchant_name) = Len(merchantName)
        /\ \A k \in 1..Len(merchantName) :
              toLowerCase(<<r.merchant_name[k]>>) = toLowerCase(<<merchantName[k]>>)}

\* The global-cache entry that matches merchantName up to letter case, if any.
GlobalEntry(merchantName) ==
    {merchant_categories[k].category :
        k \in {n \in DOMAIN merchant_categories :
                  toLowerCase(n) = toLowerCase(merchantName)}}

\* C17: category resolution order with short-circuit. The override stage
\* returns an override of the owner that matches the merchant up to letter
\* case whenever one exists, whether or not the global cache has an entry, and
\* no later stage is consulted; without an override the global-cache entry is
\* returned; without it the heuristic keyword match; without it the external
\* lookup is consulted (when an API key is configured); each later stage is
\* consulted only after every earlier stage missed.
C17_ResolutionOrder ==
    [][\A w \in Workers :
          (run[w].status = "processing" /\ run'[w] # run[w]) =>
              LET name == T(run[w]).merchant_name
                  overrides == Overrides(run[w].user_id, name)
                  heuristic == categorizeByCommonName(name)
              IN  /\ (run[w].at = "loop" /\ run'[w].at # "loop"
                      /\ run'[w].status = "processing") =>
                         IF overrides # {}
                         THEN /\ run'[w].at = "insert"
                              /\ \E o \in overrides :
                                    run'[w].category = Some(o.category)
                         ELSE /\ run'[w].at = "global"
                              /\ run'[w].category = NULL
                  /\ run[w].at = "global" =>
                         IF GlobalEntry(name) # {}
                         THEN /\ run'[w].at = "insert"
                              /\ \E c \in GlobalEntry(name) :
                                    run'[w].category = Some(c)
                         ELSE IF heuristic # NULL
                         THEN /\ run'[w].at = "setCommon"
                              /\ run'[w].category = heuristic
                         ELSE /\ run'[w].at = IF placesApiKey THEN "places"
                                              ELSE "insert"
                              /\ run'[w].category = NULL
                  /\ run[w].at = "places" =>
                         /\ run[w].category = NULL
                         /\ heuristic = NULL
                         /\ run'[w].at \in {"setPlaces", "insert"}
                         /\ run'[w].at = "setPlaces" <=> run'[w].category # NULL]_vars

\* C17 witness: a candidate of an owner was resolved to the owner's override
\* ("Travel" or "Shopping", stored under another spelling of the merchant)
\* while the global cache holds another category for the merchant.
C17_Witness ==
    \E w \in Workers :
        /\ run[w].at = "insert"
        /\ LET name == T(run[w]).merchant_name
           IN  /\ \E o \in Overrides(run[w].user_id, name) :
                     /\ run[w].category = Some(o.category)
                     /\ o.merchant_name # name
               /\ GlobalEntry(name) # {}
               /\ \A c \in GlobalEntry(name) : run[w].category # Some(c)

\* The global cache after the step holds category under tag source for
\* merchantName, and is otherwise as before the step.
CacheWritten(merchantName, category, source) ==
    LET key == toLowerCase(merchantName)
    IN  /\ DOMAIN merchant_categories' = DOMAIN merchant_categories \cup {key}
        /\ merchant_categories'[key] = [category |-> category, source |-> source]
        /\ \A k \in DOMAIN merchant_categories \ {key} :
              merchant_categories'[k] = merchant_categories[k]

\* C18: category resolution during job processing never inserts, updates or
\* deletes a per-owner override, and writes the global cache only when the
\* category was found by the heuristic stage (tagged common_name) or by the
\* external stage (tagged google_places); when the override or the global
\* cache hits, or when nothing is found, no cache entry is written.
C18_ResolutionWrites ==
    [][\A w \in Workers :
          (run[w].status = "processing" /\ run'[w] # run[w]) =>
              /\ user_merchant_categories' = user_merchant_categories
              /\ IF run[w].at = "setCommon"
                 THEN /\ run[w].category # NULL
                      /\ run[w].category = categorizeByCommonName(T(run[w]).merchant_name)
                      /\ CacheWritten(T(run[w]).merchant_name,
                                      Val(run[w].category), "common_name")
                 ELSE IF run[w].at = "setPlaces"
                 THEN /\ run[w].category # NULL
                      /\ categorizeByCommonName(T(run[w]).merchant_name) = NULL
                      /\ CacheWritten(T(run[w]).merchant_name,
                                      Val(run[w].category), "google_places")
                 ELSE merchant_categories' = merchant_categories]_vars

\* C18 witness: the heuristic stage has cached "bp" tagged common_name, the
\* external stage has cached "zed" tagged google_places, and a job is about
\* to insert a candidate resolved by an override that a user has set.
C18_Witness ==
    /\ toLowerCase(MerchantBP) \in DOMAIN merchant_categories
    /\ merchant_categories[toLowerCase(MerchantBP)].source = "common_name"
    /\ toLowerCase(MerchantZed) \in DOMAIN merchant_categories
    /\ merchant_categories[toLowerCase(MerchantZed)].source = "google_places"
    /\ \E w \in Workers :
          /\ run[w].at = "insert"
          /\ \E o \in Overrides(run[w].user_id, T(run[w]).merchant_name) :
                run[w].category = Some(o.category)

\* The merchant names of the model, in every spelling.
Names == {MerchantBP, MerchantBp, MerchantBpSpaced, MerchantZed}

\* The categories that the override stage and the global-cache stage can
\* resolve for a candidate of owner userId with merchant name merchantName;
\* NULL when both miss: the later stages read neither table.
ResolvedFor(userId, merchantName) ==
    IF Overrides(userId, merchantName) # {}
    THEN {Some(o.category) : o \in Overrides(userId, merchantName)}
    ELSE IF GlobalEntry(merchantName) # {}
    THEN {Some(c) : c \in GlobalEntry(merchantName)}
    ELSE {NULL}

\* C19: override isolation. A category PUT never changes the global cache, and
\* it changes the category resolved for an owner and a merchant only if it is
\* a PUT on a transaction of that owner with that merchant, to the category
\* put: owner A's PUT never changes what is resolved for another owner B.
C19_OverrideIsolation ==
    [][requests' # requests =>
          /\ merchant_categories' = merchant_categories
          /\ \A B \in Owners : \A name \in Names :
                ResolvedFor(B, name)' # ResolvedFor(B, name) =>
                    \E id \in DOMAIN transactions :
                        /\ transactions[id].user_id = B
                        /\ toLowerCase(transactions[id].merchant_name) = toLowerCase(name)
                        /\ transactions'[id].category \in ResolvedFor(B, name)'
                        /\ transactions'[id].category # NULL]_vars

\* C19 witness: two owners have put different categories on their transactions
\* with the same merchant; each owner's override is its own.
C19_Witness ==
    \E a \in user_merchant_categories : \E b \in user_merchant_categories :
        /\ a.user_id # b.user_id
        /\ a.merchant_name = b.merchant_name
        /\ a.category # b.category
        /\ ResolvedFor(a.user_id, a.merchant_name) = {Some(a.category)}
        /\ ResolvedFor(b.user_id, b.merchant_name) = {Some(b.category)}
        /\ GlobalEntry(a.merchant_name) # {}

\* The answer of the external directory gives no category: the call threw,
\* the status is not OK, there are no results, or no type of the first result
\* is in the mapping table.
Unusable(answer) ==
    \/ answer.threw
    \/ answer.status # "OK"
    \/ answer.results = << >>
    \/ \A k \in 1..Len(answer.results[1].types) :
          answer.results[1].types[k] \notin DOMAIN PLACE_TYPE_TO_CATEGORY

\* C20: if the external lookup throws, returns a non-OK status, returns no
\* results or returns only place types absent from the mapping table, the
\* lookup step yields no category, writes nothing to the global cache and does
\* not fail the job; the insert that follows is made with a null category,
\* writes nothing to the global cache and does not fail the job, and where the
\* id is not stored yet the row is stored with a null category.
C20_LookupFailure ==
    [][\A w \in Workers :
          /\ (run[w].at = "places" /\ run'[w] # run[w]) =>
                /\ run'[w].status = "processing"
                /\ run'[w].answer # NULL
                /\ merchant_categories' = merchant_categories
                /\ Unusable(Val(run'[w].answer)) =>
                      run'[w].category = NULL /\ run'[w].at = "insert"
          /\ (run[w].at = "insert" /\ run[w].answer # NULL /\ run'[w] # run[w]
              /\ Unusable(Val(run[w].answer))) =>
                /\ run[w].category = NULL
                /\ run'[w].status = "processing"
                /\ run'[w].i = run[w].i + 1
                /\ merchant_categories' = merchant_categories
                /\ TransactionId(run[w]) \in DOMAIN transactions'
                /\ TransactionId(run[w]) \notin DOMAIN transactions =>
                      /\ IsRowFor(transactions'[TransactionId(run[w])], run[w])
                      /\ transactions'[TransactionId(run[w])].category = NULL]_vars

\* C20 witness: the external lookup threw for the candidate "Zed" of a job,
\* the job is about to insert the candidate without a category, and a row
\* with a null category is stored already for another owner's candidate.
C20_Witness ==
    \E w \in Workers :
        /\ run[w].at = "insert"
        /\ run[w].status = "processing"
        /\ run[w].answer # NULL
        /\ Val(run[w].answer).threw
        /\ run[w].category = NULL
        /\ T(run[w]).merchant_name = MerchantZed
        /\ \E id \in DOMAIN transactions :
              /\ transactions[id].category = NULL
              /\ transactions[id].user_id # run[w].user_id


\* The errors of the model that are rate-limit signals (status 429, or a
\* message with "429", "rate limit" or "quota"), and the two that are not.
RateLimitSignals == {RetryErrors[k] : k \in 1..4}
OtherErrors == {RetryErrors[k] : k \in 5..6}

C22_OtherErrorsPropagate ==
    \A k \in 1..Len(retry.outcomes) :
        retry.outcomes[k] \in OtherErrors =>
            /\ k = Len(retry.outcomes)
            /\ Len(retry.delays) = k - 1
            /\ retry.at \in {"thrown", "failed"}
            /\ retry.settled = Some(retry.outcomes[k])

\* C22 witness: the third attempt, after two rate-limited ones, raised
\* "Rate Limit" with status 400 and withRetry has rethrown it.
C22_Witness ==
    /\ retry.at = "thrown"
    /\ Len(retry.outcomes) = 3
    /\ retry.outcomes[3] = RetryErrors[6]
    /\ retry.settled = Some(RetryErrors[6])


\* C23: malformed extraction output is not a job failure: when the response
\* of the model holds no parseable JSON array and the repair fails too, or no
\* array span is found, extraction returns an empty list of candidates (the
\* job goes on to its loop with zero candidates) and the job is never
\* finalized failed with the error of the parsing.
C23_MalformedIsNotFailure ==
    /\ [][(job.at = "frames" /\ job'.responseContent # NULL
             /\ Val(job'.responseContent) # << >>
             /\ ~JSONparse(Val(job'.responseContent))[1])
          => (job'.at = "loop" /\ job'.rawTransactions # NULL)]_vars
    /\ [](job.status = "failed" =>
             job.error \notin {"Could not parse transactions from response",
                               "Invalid JSON in response"})

\* The positions of FullResponse at which an element ends, and those in the
\* middle of an element (a cut after n characters leaves the element open).
ElementEnds == {k \in DOMAIN FullResponse : FullResponse[k] = 125}
MidElement ==
    {n \in DOMAIN FullResponse :
        Cardinality({k \in 1..n : FullResponse[k] = 123})
            > Cardinality({k \in ElementEnds : k <= n})}

\* C24: truncated-JSON repair: for a response that is a valid JSON array of
\* objects cut off in the middle of an element, extraction returns exactly
\* the fully-formed leading elements, discards the tail and does not raise.
C24_TruncatedRepair ==
    \A n \in MidElement :
        job.responseContent = Some(SubSeq(FullResponse, 1, n)) =>
            /\ job.at # "catch"
            /\ job.rawTransactions =
                   Some(SubSeq(JSONparse(FullResponse)[2][2], 1,
                               Cardinality({k \in ElementEnds : k <= n})))

\* The frames the first k calls of the vision model carried.
RECURSIVE SumCalls(_)
SumCalls(k) == IF k = 0 THEN 0 ELSE job.calls[k] + SumCalls(k - 1)

\* C25: every call of the vision model carries at most 12 frames; a job with
\* more frames is split into several calls that carry every frame once.
C25_BoundedBatch ==
    /\ \A k \in DOMAIN job.calls : job.calls[k] <= 12
    /\ job.at = "loop" /\ job.frames > 0 =>
           /\ Len(job.calls) = (job.frames + 11) \div 12
           /\ SumCalls(Len(job.calls)) = job.frames

\* C26: blob cleanup: when processJob is over for a job whose payload refers
\* to storage, a delete was attempted for the video key and for every frame
\* key, whether the job ended completed or failed and whichever step raised.
C26_BlobCleanup ==
    job.at \in {"returned", "rejected"} =>
        /\ job.payload.videoKey => job.videoDeleted
        /\ job.deleted = job.payload.frameKeys


C29_OldestFirst ==
    [][\A w \in Workers :
          /\ (pc[w] = "claimSelect" /\ pc'[w] = "claim") =>
                LET pending == {j \in DOMAIN jobs : jobs[j].status = "pending"}
                IN  /\ sel'[w] \subseteq pending
                    /\ \/ Cardinality(sel'[w]) = slots[w]
                       \/ sel'[w] = pending
                    /\ \A j \in sel'[w] : \A o \in pending \ sel'[w] : j < o
          /\ (pc[w] = "claim" /\ pc'[w] # "claim") =>
                /\ DOMAIN proc'[w] = sel[w]
                /\ \A j \in sel[w] : jobs'[j].status = "processing"
                /\ \A j \in DOMAIN jobs \ sel[w] : jobs'[j] = jobs[j]]_vars

\* An invocation has claimed a job and left a pending job that is younger
\* than every job it claimed.
C29_Witness ==
    \E w \in Workers :
        /\ pc[w] = "process"
        /\ DOMAIN proc[w] # {}
        /\ \E o \in DOMAIN jobs :
              /\ jobs[o].status = "pending"
              /\ \A j \in DOMAIN proc[w] : j < o /\ jobs[j].status = "processing"


\* C30: a job in status completed has an added and a duplicates count, and
\* added + duplicates is the number of extracted candidates whose date
\* parseTransactionDate could read.
C30_CountsAddUp ==
    \A w \in Workers :
        run[w].status = "completed" =>
            /\ run[w].added \in Nat
            /\ run[w].duplicates \in Nat
            /\ run[w].added + run[w].duplicates = Cardinality(Parsed(run[w]))

\* A completed job that added a candidate and skipped one without a date.
C30_Witness ==
    \E w \in Workers :
        /\ run[w].status = "completed"
        /\ run[w].added >= 1
        /\ Cardinality(Parsed(run[w])) < Len(run[w].rawTransactions)


\* C28: owner-scoped status: a job-status request returns status, result and
\* error of a job only when the job's owner is the signed-in requester; for a
\* job of another owner the response is the "Job not found" a missing job
\* gets; and the responses over two tables that hold the same jobs of the
\* requester are equal, whatever the jobs of the other owners are.
C28_OwnerScoped ==
    ret # << >> =>
        LET userId == args[1]
            mine == {r \in args[2] : r.user_id = userId}
            response == ret.responses[1]
        IN  /\ ret.responses[1] = ret.responses[2]
            /\ ret.route = "job" =>
                  /\ response.status = 200 =>
                        \E r \in mine :
                            /\ r.id = ret.id
                            /\ Val(response.job) =
                                   [jobId |-> r.id, status |-> r.status,
                                    result |-> r.result, error |-> r.error]
                  /\ (userId # NULL /\ ret.ok /\ ~\E r \in mine : r.id = ret.id) =>
                        response = [status |-> 404, error |-> "Job not found",
                                    job |-> NULL]
            /\ ret.route = "jobs" /\ response.status = 200 =>
                  {r.id : r \in Val(response.job).jobs} = {r.id : r \in mine}

\* The requester asked for a job of another owner, which only one of the two
\* tables holds, and was told "Job not found" both times.
C28_Witness ==
    /\ ret # << >>
    /\ ret.route = "job"
    /\ args[1] # NULL
    /\ \E r \in args[2] : r.id = ret.id /\ r.user_id # args[1]
    /\ ~\E r \in args[3] : r.id = ret.id
    /\ ret.responses[1].status = 404
    /\ ret.responses[2].status = 404


\* C31: single-flight worker: at most one job is in status processing at any
\* time, also when several invocations run concurrently.
C31_SingleFlight ==
    Cardinality({j \in DOMAIN jobs : jobs[j].status = "processing"}) <= 1

\* C32: single-flight worker: a processing job is reset to pending only when
\* it has been in processing for at least 5 minutes, however long it waited
\* in pending before it was claimed.
C32_ResetOnlyStuck ==
    [][\A j \in DOMAIN jobs :
          (jobs[j].status = "processing" /\ jobs'[j].status = "pending") =>
              now - Val(jobs[j].claimed_at) >= 5]_vars


\* C33: whenever a job with a storage-reference payload is claimed, the blob
\* it refers to is still in the blob store: at a first attempt, after a
\* requeue of the failed job, after a recovery as stuck, and for two jobs
\* whose uploads were given the same deduplicated key.
C33_BlobsPresentAtClaim ==
    [][\A w \in Workers :
          (pc[w] = "claim" /\ pc'[w] = "process") =>
              \A j \in DOMAIN proc'[w] : jobs[j].payload \in blobs]_vars


\* C34: no job cycles forever: along every execution each job is claimed
\* (pending to processing) only a bounded number of times, re-claims after
\* the auto-retry and after the recovery of stuck jobs alike - from some
\* point on the job is never claimed again.
C34_BoundedClaims ==
    \A j \in 1..MaxLoopJobs :
        <>[][~(/\ j \in DOMAIN jobs
               /\ jobs[j].status = "pending"
               /\ jobs'[j].status = "processing")]_vars


\* C35: liveness: if handleWorker keeps being invoked, no invocation crashes
\* and no job is in processing for longer than the staleness threshold, then
\* every enqueued job eventually is completed, or failed with retry_count at
\* the cap, and stays so for ever.
C35_Liveness ==
    [](\A j \in DOMAIN jobs :
          (jobs[j].status = "processing" /\ jobs[j].started_at # NULL) =>
              Val(jobs[j].started_at) >= now - JOB_TIMEOUT_MINUTES)
    => \A j \in 1..MaxLoopJobs :
          <>[](j \in DOMAIN jobs =>
                  \/ jobs[j].status = "completed"
                  \/ jobs[j].status = "failed" /\ jobs[j].retry_count = MAX_RETRIES)


\* C36: every non-null value parseTransactionDate returns is a day of the
\* calendar in YYYY-MM-DD form, so that a candidate that has passed the
\* normalization never makes the insert into the DATE column fail: whenever
\* a job executes the insert of a candidate, the date of the row is a day of
\* the calendar and the job is still processing afterwards.
C36_NormalizedIsCalendarDate ==
    [][\A w \in Workers :
          Inserts(w) =>
              /\ parseTransactionDate(T(run[w]).transaction_date) # NULL
              /\ DateAccepted(TransactionRow(run[w]).transaction_date)
              /\ run'[w].status = "processing"]_vars


\* C37: all ingestion paths (the worker's processJob, process-frames,
\* process-batch, the manual add) compute the same fingerprint for the same
\* transaction, so a transaction ingested through one path and again
\* through another is stored once: after both ingestions the two ids are
\* equal and the store holds at most one row.
C37_PathsAgree ==
    Len(ret) = 2 =>
        /\ ret[1] = ret[2]
        /\ Cardinality(DOMAIN transactions) <= 1


\* C38: after any sequence of setUserMerchantCategory and
\* deleteUserMerchantCategory calls, each owner has at most one override row
\* per merchant name compared without regard to letter case, so that the
\* lookup of getUserMerchantCategory has a single possible answer.
C38_OneOverridePerName ==
    \A r1 \in user_merchant_categories : \A r2 \in user_merchant_categories :
        (/\ r1.user_id = r2.user_id
         /\ toLowerCase(r1.merchant_name) = toLowerCase(r2.merchant_name))
        => r1 = r2

====
